---- MODULE Spec2Model ----
(***************************************************************************)
(* A model of the SPRgame server (Sapphirerr/sprgame): one room of the     *)
(* card battle, its deck, its turn/phase sequencer with the setTimeout     *)
(* callbacks that drive it, and the socket commands of the clients.        *)
(*                                                                         *)
(* index.js holds two generations of the server; the running one is the    *)
(* second (lines 1451-3095), and it is the one modelled here.              *)
(*                                                                         *)
(* Scores are kept doubled (Score2 = 2 * score): the weights are 2, 1.5    *)
(* and 1 and the stats are integers, so every score is a multiple of 0.5.  *)
(***************************************************************************)
EXTENDS Integers, Sequences, FiniteSets, Bags, TLC

(***************************************************************************)
(* Bounds of the model.                                                    *)
(***************************************************************************)
\* size of the card catalog data/cards.json (78 cards in the repository)
NumCards == 5
\* cards dealt to each player at game start (5 in gameManager.js:40), scaled
StartHand == 1
\* the full heart value (6 in gameManager.js:25, index.js:2160), scaled
MaxHeart == 2
\* no event slot starts for a turn beyond this one
MaxTurn == 1
\* number of startGame runs explored in one room
MaxGames == 1
\* the capacity of the room (5 in roomManager.js:96), scaled
MaxPlayers == 2
\* The count of resolveTurn runs within one turn saturates here.
MaxResolves == 3
\* number of outcomes of a shuffle that are explored
ShuffleWays == 2
\* cards each living player draws in the Mikudayo phase (3 in index.js:2054), scaled
MikudayoDraw == 1
\* cards a divine-card revival draws (10 in skillManager.js), scaled
ReviveDraw == 2

\* the players that joined the room, in the order of room.players
Humans == {1, 2}
Bots == {3}
Slots == Humans \cup Bots
\* the creator of the room (roomManager.createRoom)
Host == 1

NoCard == 0
\* player.id before a socket is bound to the player (null), and the id of a
\* socket that has closed
NoSocket == 0
Closed == -2
\* what Array.pop() gives on an empty pile
Undef == -1
NoAction == 0
Gacha == 1
Skill == 2
Compete == 3
Flee == 4

(***************************************************************************)
(* Catalog data (data/cards.json, data/events.json are loaded at start).   *)
(***************************************************************************)
Card(v, d, vi, sk, ty, ra, gr, ch) ==
  [vocal |-> v, dance |-> d, visual |-> vi, skill |-> sk,
   type |-> ty, rarity |-> ra, group |-> gr, character |-> ch]

CardData ==
  << Card(20, 15, 10, "none",          "love",  "normal", "VS",  "Miku"),
     Card(20, 15, 10, "salt",          "hope",  "normal", "LN",  "Ichika"),
     Card(10, 20, 15, "gacha god",     "happy", "limit",  "MMJ", "Minori"),
     Card(15, 10, 20, "none",          "love",  "fes",    "VBS", "Kohane"),
     Card(12, 12, 12, "leek shield",   "hope",  "normal", "VS",  "Miku"),
     Card(16, 14, 12, "never give up", "happy", "normal", "WxS", "Tsukasa"),
     Card(14, 16, 12, "hidden skill",  "love",  "limit",  "Niko", "Kanade"),
     Card(12, 14, 16, "divine card",   "hope",  "fes",    "LN",  "Saki"),
     Card(18, 12, 12, "none",          "love",  "normal", "VS",  "Rin"),
     Card(13, 13, 13, "fate control",  "happy", "normal", "MMJ", "Haruka"),
     Card(10,  5,  5, "none",          "love",  "normal", "VS",  "Len"),
     Card( 5, 10,  5, "none",          "love",  "normal", "VS",  "Luka"),
     Card( 5,  5, 10, "none",          "love",  "normal", "VS",  "Meiko"),
     Card( 1,  1, 10, "none",          "love",  "normal", "VS",  "Kaito"),
     Card( 8, 10, 10, "golden microphone", "love",  "normal", "VS",  "Miku"),
     Card(10,  8, 10, "feet of fire",      "hope",  "normal", "LN",  "Honami"),
     Card(10, 10,  8, "makeup shop visit", "happy", "normal", "MMJ", "Airi"),
     Card(10,  3, 10, "mic power cut",     "love",  "normal", "VBS", "An"),
     Card(10, 10,  3, "freeze spell",      "hope",  "normal", "WxS", "Emu"),
     Card( 3, 10, 10, "banana slip",       "happy", "normal", "Niko", "Mafuyu") >>

\* the catalog ids: card k of the catalog has id k
CARDS == [k \in 1..NumCards |-> k]

\* A card object is written as a number: the catalog id it carries.  The object
\* a client sends in a playCard payload carries an id and fields of the client's
\* choosing; the payload with id k and every stat set to ForgedStat is written
\* ForgedMark + k.
ForgedMark == 100
ForgedStat == 30
Forged(k) == ForgedMark + k
IsForged(c) == c > ForgedMark

CardId(c) == IF IsForged(c) THEN c - ForgedMark ELSE c
CardOf(c) ==
  IF IsForged(c)
  THEN [CardData[CardId(c)] EXCEPT !.vocal = ForgedStat, !.dance = ForgedStat,
                                   !.visual = ForgedStat]
  ELSE CardData[CardId(c)]

Event(n, e, ty, ra, gr, b) ==
  [name |-> n, effect |-> e, type |-> ty, rarity |-> ra, group |-> gr, scoreBonus |-> b]

EVENTS ==
  << Event("mikudayo", "draw_3",         "", {}, "", 0),
     Event("mystery",  "special_battle", "", {}, "", 0),
     Event("shrimp",   "shrimp_curse",   "", {}, "", 0),
     Event("heal",     "heal_1",         "", {}, "", 0),
     Event("nerf",     "stat_minus_2",   "", {}, "", 0) >>

NoEvent == Event("", "null", "", {}, "", 0)

Max(a, b) == IF a >= b THEN a ELSE b
Min(a, b) == IF a <= b THEN a ELSE b

(***************************************************************************)
(* utils.js: shuffle.  Array.sort with a random comparator yields some     *)
(* permutation; ShuffleWays of them are explored, way 0 being the          *)
(* permutation that puts the array back as it was.                         *)
(***************************************************************************)
Rotate(s, k) ==
  IF Len(s) = 0 THEN s
  ELSE [i \in 1..Len(s) |-> s[((i - 1 + k) % Len(s)) + 1]]

shuffle(arr, way) == Rotate(arr, way)

Ways == 0..(ShuffleWays - 1)

(***************************************************************************)
(* utils.js: CardDeck.  A deck is [avail, used], two arrays of cards, and   *)
(* recycled: whether used cards have ever become the available pile.       *)
(***************************************************************************)
NewDeck(way) == [avail |-> shuffle(CARDS, way), used |-> << >>, recycled |-> FALSE]

\* drawCard: recycle the used pile when the available pile is empty, then pop
popCard(deck) ==
  IF Len(deck.avail) = 0
  THEN [deck |-> deck, card |-> Undef]
  ELSE [deck |-> [deck EXCEPT !.avail = SubSeq(deck.avail, 1, Len(deck.avail) - 1)],
        card |-> deck.avail[Len(deck.avail)]]

\* the used pile never becomes the available pile
recycleNever(deck, way) == deck

\* the used pile becomes the available pile and is not emptied
recycleKeep(deck, way) ==
  IF Len(deck.avail) = 0
  THEN [avail |-> shuffle(deck.used, way), used |-> deck.used,
        recycled |-> deck.recycled \/ Len(deck.used) > 0]
  ELSE deck

recycle(deck, way) ==
  IF Len(deck.avail) = 0
  THEN [avail |-> shuffle(deck.used, way), used |-> << >>,
        recycled |-> deck.recycled \/ Len(deck.used) > 0]
  ELSE deck

drawCard(deck, way) == popCard(recycle(deck, way))

\* drawCards: count times drawCard, the results pushed in order
prependCard(one, rest) == [deck |-> rest.deck, cards |-> <<one.card>> \o rest.cards]

RECURSIVE drawCards(_, _, _)
RECURSIVE drawMore(_, _, _)
drawMore(one, n, way) == prependCard(one, drawCards(one.deck, n - 1, way))

drawCards(deck, n, way) ==
  IF n = 0 THEN [deck |-> deck, cards |-> << >>]
  ELSE drawMore(drawCard(deck, way), n, way)

returnCard(deck, card) == [deck EXCEPT !.used = Append(deck.used, card)]

deckCount(deck) == Len(deck.avail) + Len(deck.used)

(***************************************************************************)
(* utils.js: getEventModifiers / calculateScore, doubled.                  *)
(***************************************************************************)
Max3(a, b, c) == Max(a, Max(b, c))

\* the penalty without its floor
statMinusNoFloor(x, event) == IF event.effect = "stat_minus_2" THEN x - 2 ELSE x

\* the stat penalty of stat_minus_2
statMinus(x, event) == IF event.effect = "stat_minus_2" THEN Max(1, x - 2) ELSE x

\* max_stat_zero: a stat equal to the largest becomes 0
maxStatZero(x, m, event) == IF event.effect = "max_stat_zero" /\ x = m THEN 0 ELSE x

\* every competition type weighs the stats 2, 1 and 0.5
baseScoreLight(v, d, vi, type, event) ==
  IF event.effect = "special_battle" THEN 2 * (v + d + vi)
  ELSE IF type = "vocal"  THEN 4 * v + 2 * d + vi
  ELSE IF type = "dance"  THEN 4 * d + 2 * vi + v
  ELSE IF type = "visual" THEN 4 * vi + 2 * v + d
  ELSE 0

baseScore2(v, d, vi, type, event) ==
  IF event.effect = "special_battle" THEN 2 * (v + d + vi)
  ELSE IF type = "vocal"  THEN 4 * v + 3 * d + 2 * vi
  ELSE IF type = "dance"  THEN 4 * d + 3 * vi + 2 * v
  ELSE IF type = "visual" THEN 4 * vi + 3 * v + 2 * d
  ELSE 0

zeroedScore2(v, d, vi, type, event) ==
  baseScore2(maxStatZero(v, Max3(v, d, vi), event), maxStatZero(d, Max3(v, d, vi), event),
             maxStatZero(vi, Max3(v, d, vi), event), type, event)

bonusOr(event, dflt) == IF event.scoreBonus # 0 THEN event.scoreBonus ELSE dflt

scoreBonus(card, event) ==
    (IF event.effect = "type_buff" /\ card.type = event.type THEN bonusOr(event, 5) ELSE 0)
  + (IF event.effect = "rarity_buff" /\ card.rarity \in event.rarity
     THEN bonusOr(event, 10) ELSE 0)
  + (IF event.effect = "group_buff" /\ card.group = event.group THEN bonusOr(event, 5) ELSE 0)
  + (IF event.effect = "sapphire_r" /\ card.character = "Kohane"
     THEN bonusOr(event, 30) ELSE 0)

\* stats is [vocal, dance, visual]; card gives type, rarity, group, character
calculateScore2(stats, card, type, event) ==
  zeroedScore2(statMinus(stats.vocal, event), statMinus(stats.dance, event),
               statMinus(stats.visual, event), type, event)
  + 2 * scoreBonus(card, event)

statsOfCard(card) == [vocal |-> card.vocal, dance |-> card.dance, visual |-> card.visual]
StatsOf(c) == statsOfCard(CardOf(c))

(***************************************************************************)
(* State.                                                                  *)
(***************************************************************************)
VARIABLES
  players,   \* the player objects, by slot
  list,      \* room.players: the slots in the room, in order
  room,      \* the room's own fields
  deck,      \* room.deck
  timers,    \* the pending setTimeout callbacks (a bag)
  botState,  \* BotManager.botState: the bot's projected score (doubled), or -1
  announce,  \* the last game-over announcement sent to the room
  games,     \* number of startGame runs so far
  resolves   \* number of resolveTurn runs since the playCard phase began

vars == <<players, list, room, deck, timers, botState, announce, games, resolves>>

Phases == {"lobby", "drawCards", "eventSlot", "competitionSlot", "mikudayoDraw",
           "playCard", "action", "resolve"}

\* the world a handler works on
World == [players |-> players, list |-> list, room |-> room, deck |-> deck,
          timers |-> timers, botState |-> botState, announce |-> announce,
          games |-> games, resolves |-> resolves]

IsBot(p) == p \in Bots

\* index.js:1492 getPlayerKey: player.playerId || player.id.  A playerId is a
\* string "player_<time>_<random>" or "bot_<time>_<random>"; it is never a
\* socket id.  Socket ids are the numbers 1.., null is 0.
PlayerIdKey(p) == 100 + p
getPlayerKey(w, p) == PlayerIdKey(p)
\* the key SkillManager uses: player.id (the socket id; null for a bot)
SocketKey(w, p) == w.players[p].id

InList(w, p) == \E i \in 1..Len(w.list) : w.list[i] = p
ListSet(w) == {w.list[i] : i \in 1..Len(w.list)}

\* Array.filter over room.players: the slots that satisfy Test, in order
RECURSIVE FilterSeq(_, _)
FilterSeq(s, keep) ==
  IF s = << >> THEN << >>
  ELSE (IF Head(s) \in keep THEN <<Head(s)>> ELSE << >>) \o FilterSeq(Tail(s), keep)

Living(w, p) == w.players[p].heart > 0 /\ Len(w.players[p].hand) > 0
AliveSeq(w) == FilterSeq(w.list, {p \in Slots : Living(w, p)})

(***************************************************************************)
(* Timers: a pending callback is [k, p, over, win, tr]: its kind, the      *)
(* player it closes over, the gameOver flag and winner it closes over, and *)
(* whether BotManager's timer map still holds its handle.                  *)
(***************************************************************************)
Timer(k, p, over, win, tr) == [k |-> k, p |-> p, over |-> over, win |-> win, tr |-> tr]
T0(k) == Timer(k, 0, FALSE, 0, FALSE)

AddT(w, t) == [w EXCEPT !.timers = @ (+) SetToBag({t})]
DelT(w, t) == [w EXCEPT !.timers = @ (-) SetToBag({t})]
Pending(t) == BagIn(t, timers)

BotKinds == {"botCard", "botAction"}

\* the timers of the kinds in ks lose their handle in the map (for player p, or
\* for every player when p = 0)
Untrack(ts, ks, p) ==
  LET S     == BagToSet(ts)
      moved == {e \in S : e.k \in ks /\ e.tr /\ (p = 0 \/ e.p = p)}
      un(e) == [e EXCEPT !.tr = FALSE]
      tk(e) == [e EXCEPT !.tr = TRUE]
      D     == (S \ moved) \cup {un(e) : e \in moved}
  IN [e \in D |->
        (IF e \in S \ moved THEN ts[e] ELSE 0)
        + (IF ~e.tr /\ tk(e) \in moved THEN ts[tk(e)] ELSE 0)]

\* BotManager.clearTimersForRoom: clearTimeout on every handle the map holds
clearTimersForRoom(ts, ks) ==
  LET S == {e \in BagToSet(ts) : ~(e.k \in ks /\ e.tr)}
  IN [e \in S |-> ts[e]]

\* BotManager.handleRoomReset / notifyTurnResolution
handleRoomReset(w) ==
  [w EXCEPT !.timers = clearTimersForRoom(@, BotKinds),
            !.botState = [b \in Slots |-> -1]]

\* a bot timer is set: the map's entry for (kind, bot) now names the new timer
SetBotTimer(w, kind, b) ==
  AddT([w EXCEPT !.timers = Untrack(@, {kind}, b)], Timer(kind, b, FALSE, 0, TRUE))

(***************************************************************************)
(* roomManager.js: createRoom / joinRoom / addBot.  The initial state is   *)
(* the lobby after the host created the room and joined it.                *)
(***************************************************************************)
NewPlayer(p) ==
  [id |-> NoSocket,
   heart |-> MaxHeart, hand |-> << >>, ready |-> IsBot(p),
   actionCooldown |-> 0, playedCard |-> NoCard, action |-> NoAction,
   hasDecided |-> FALSE, isDead |-> FALSE, isDisconnected |-> FALSE,
   needsGachaGod |-> FALSE]

NewRoom(poolWay) ==
  [started |-> FALSE, turn |-> 0, phase |-> "lobby", event |-> NoEvent,
   competition |-> "null", protectedPlayers |-> {}, skillBlockActive |-> {},
   divineCardActive |-> {}, eventPool |-> shuffle(EVENTS, poolWay),
   usedEvents |-> 0, seen |-> << >>, playersToDraw |-> << >>,
   hostPlayerId |-> Host, hostSocketId |-> Host]

Init ==
  /\ players = [p \in Slots |-> IF p = Host THEN [NewPlayer(p) EXCEPT !.id = p]
                                 ELSE NewPlayer(p)]
  /\ list = <<Host>>
  /\ \E way \in Ways : room = NewRoom(way)
  /\ \E way \in Ways : deck = NewDeck(way)
  /\ timers = EmptyBag
  /\ botState = [b \in Slots |-> -1]
  /\ announce = [over |-> FALSE, winner |-> 0, draw |-> FALSE]
  /\ games = 0
  /\ resolves = 0

\* the step's result world w becomes the next state
Becomes(w) ==
  /\ players' = w.players
  /\ list' = w.list
  /\ room' = w.room
  /\ deck' = w.deck
  /\ timers' = w.timers
  /\ botState' = w.botState
  /\ announce' = w.announce
  /\ games' = w.games
  /\ resolves' = w.resolves

(***************************************************************************)
(* gameManager.js: GameStateManager.startGame, and index.js startGame.     *)
(***************************************************************************)
\* the cards a draw returned go to the player's hand
giveCards(w, p, r) == [w EXCEPT !.players[p].hand = @ \o r.cards, !.deck = r.deck]
dealHand(w, p, r) == [w EXCEPT !.players[p].hand = r.cards, !.deck = r.deck]

RECURSIVE DealHands(_, _, _)
DealHands(w, i, way) ==
  IF i > Len(w.list) THEN w
  ELSE DealHands(dealHand(w, w.list[i], drawCards(w.deck, StartHand, way)), i + 1, way)

GameStateManager_startGame(w, way) ==
  LET w1 == [w EXCEPT
               !.games = @ + 1,
               !.announce = [over |-> FALSE, winner |-> 0, draw |-> FALSE],
               !.room.started = TRUE, !.room.phase = "drawCards", !.room.turn = 1,
               !.room.event = NoEvent, !.room.competition = "null",
               !.room.playersToDraw = << >>, !.room.usedEvents = 0,
               !.players = [p \in Slots |->
                  IF InList(w, p)
                  THEN [@[p] EXCEPT !.hand = << >>, !.heart = MaxHeart, !.ready = FALSE,
                                    !.playedCard = NoCard, !.action = NoAction,
                                    !.actionCooldown = 0, !.hasDecided = FALSE,
                                    !.isDead = FALSE, !.needsGachaGod = FALSE]
                  ELSE @[p]]]
  IN DealHands(w1, 1, way)

startGame(w, way) ==
  AddT(GameStateManager_startGame(w, way), T0("startEventSlot"))

(***************************************************************************)
(* gameManager.js: GameStateManager.getNextEvent.                          *)
(***************************************************************************)
\* room.seen (not a field of the program) lists the names of the events returned
\* since the pool was last shuffled.
getNextEvent(r, way) ==
  LET r1 == IF r.usedEvents >= Len(r.eventPool)
            THEN [r EXCEPT !.eventPool = shuffle(r.eventPool, way), !.usedEvents = 0,
                           !.seen = << >>]
            ELSE r
  IN [room |-> [r1 EXCEPT !.usedEvents = @ + 1,
                          !.seen = Append(@, r1.eventPool[r1.usedEvents + 1].name)],
      event |-> r1.eventPool[r1.usedEvents + 1]]

(***************************************************************************)
(* index.js: the staging chain startEventSlot -> startCompetitionSlot ->   *)
(* [startMikudayoDrawPhase] -> startPlayCardPhase.  A callback that only   *)
(* emits and sets the next timer is folded into the timer that follows it. *)
(***************************************************************************)
Competitions == {"vocal", "dance", "visual"}

startEventSlot(w, way) ==
  LET n == getNextEvent([w.room EXCEPT !.phase = "eventSlot"], way)
  IN AddT([w EXCEPT !.room = [n.room EXCEPT !.event = n.event]],
          T0("startCompetitionSlot"))

startMikudayoDrawPhase(w) ==
  AddT([w EXCEPT !.room.phase = "mikudayoDraw"], T0("mikudayoDraw"))

\* the body both branches of startCompetitionSlot run once the result is out
afterCompetitionResult(w) ==
  IF w.room.event.effect = "draw_3"
  THEN startMikudayoDrawPhase(w)
  ELSE AddT(w, T0("startPlayCardPhase"))

startCompetitionSlot(w, comp) ==
  IF w.room.event.effect = "special_battle"
  THEN afterCompetitionResult([w EXCEPT !.room.competition = "mystery"])
  ELSE AddT([w EXCEPT !.room.phase = "competitionSlot", !.room.competition = comp],
            T0("competitionResult"))

RECURSIVE MikudayoLoop(_, _, _)
MikudayoLoop(w, i, way) ==
  IF i > Len(w.list) THEN w
  ELSE IF Living(w, w.list[i])
  THEN MikudayoLoop(giveCards(w, w.list[i], drawCards(w.deck, MikudayoDraw, way)), i + 1, way)
  ELSE MikudayoLoop(w, i + 1, way)

mikudayoDrawCallback(w, way) ==
  AddT(MikudayoLoop(w, 1, way), T0("startPlayCardPhase"))

(***************************************************************************)
(* skillManager.js: checkDivineCardRevival.                                *)
(***************************************************************************)
revive(w, p, r) ==
  [w EXCEPT !.players[p].heart = 1, !.players[p].hand = @ \o r.cards, !.deck = r.deck]

\* the revival whatever the heart is
consumeDivineAlways(w, p, way) ==
  [w |-> revive(w, p, drawCards(w.deck, ReviveDraw, way)), revived |-> TRUE]

consumeDivine(w, p, way) ==
  IF w.players[p].heart = 0
  THEN [w |-> revive(w, p, drawCards(w.deck, ReviveDraw, way)), revived |-> TRUE]
  ELSE [w |-> w, revived |-> FALSE]

checkDivineCardRevival(w, p, way) ==
  IF SocketKey(w, p) \notin w.room.divineCardActive
  THEN [w |-> w, revived |-> FALSE]
  ELSE consumeDivine([w EXCEPT !.room.divineCardActive = @ \ {SocketKey(w, p)}], p, way)

afterRevival(r, p) ==
  IF r.revived THEN [r.w EXCEPT !.players[p].isDead = FALSE] ELSE r.w

RECURSIVE DivineLoop(_, _, _)
DivineLoop(w, i, way) ==
  IF i > Len(w.list) THEN w
  ELSE DivineLoop(afterRevival(checkDivineCardRevival(w, w.list[i], way), w.list[i]),
                  i + 1, way)

(***************************************************************************)
(* botManager.js: getActiveBots / handleNewTurn / handleActionPhase.       *)
(***************************************************************************)
getActiveBots(w) ==
  FilterSeq(w.list, {p \in Slots : IsBot(p) /\ Living(w, p) /\ ~w.players[p].isDead})

RECURSIVE SetBotTimers(_, _, _)
SetBotTimers(w, kind, bots) ==
  IF bots = << >> THEN w
  ELSE SetBotTimers(SetBotTimer(w, kind, Head(bots)), kind, Tail(bots))

handleNewTurn(w) ==
  IF ~w.room.started \/ w.room.phase # "playCard" THEN w
  ELSE LET w1 == handleRoomReset(w)
       IN SetBotTimers(w1, "botCard",
            FilterSeq(getActiveBots(w1), {b \in Slots : ~w1.players[b].hasDecided}))

handleActionPhase(w) ==
  IF ~w.room.started \/ w.room.phase # "action" THEN w
  ELSE SetBotTimers(w, "botAction",
         FilterSeq(getActiveBots(w),
                   {b \in Slots : w.players[b].playedCard # NoCard
                                  /\ w.players[b].action = NoAction}))

(***************************************************************************)
(* index.js: startPlayCardPhase / startNewTurn.                            *)
(***************************************************************************)
\* the two auto-skip loops: heart 0, and heart 0 or (noCards) an empty hand
autoSkipDead(w, noCards) ==
  [w EXCEPT !.players = [p \in Slots |->
      IF InList(w, p) /\ (@[p].heart = 0 \/ (noCards /\ Len(@[p].hand) = 0))
      THEN [@[p] EXCEPT !.playedCard = NoCard, !.hasDecided = TRUE]
      ELSE @[p]]]

\* the turn start without the cooldown decrement
resetDecisionsKeepCooldown(w) ==
  AddT([w EXCEPT !.room.phase = "playCard", !.resolves = 0,
                 !.players = [p \in Slots |->
                    IF InList(w, p)
                    THEN [@[p] EXCEPT !.playedCard = NoCard, !.action = NoAction,
                                      !.hasDecided = FALSE]
                    ELSE @[p]]], T0("autoSkip"))

\* every listed player's decision is cleared and the 30 s timer is set
resetDecisions(w) ==
  AddT([w EXCEPT !.room.phase = "playCard", !.resolves = 0,
                 !.players = [p \in Slots |->
                    IF InList(w, p)
                    THEN [@[p] EXCEPT !.playedCard = NoCard, !.action = NoAction,
                                      !.hasDecided = FALSE,
                                      !.actionCooldown = IF @ > 0 THEN @ - 1 ELSE @]
                    ELSE @[p]]], T0("autoSkip"))

\* the heal without its ceiling
healAllUncapped(w) ==
  [w EXCEPT !.players = [p \in Slots |->
      IF InList(w, p) THEN [@[p] EXCEPT !.heart = @ + 1] ELSE @[p]]]

healAll(w) ==
  [w EXCEPT !.players = [p \in Slots |->
      IF InList(w, p) THEN [@[p] EXCEPT !.heart = Min(MaxHeart, @ + 1)] ELSE @[p]]]

curseAll(w) ==
  [w EXCEPT !.players = [p \in Slots |->
      IF InList(w, p) THEN [@[p] EXCEPT !.heart = Max(0, @ - 1)] ELSE @[p]]]

\* after the curse: a last survivor wins, nobody left is a draw, else the dead skip
afterCurse(w, alive) ==
  IF Len(alive) = 1
  THEN [w EXCEPT !.announce = [over |-> TRUE, winner |-> alive[1], draw |-> FALSE]]
  ELSE IF Len(alive) = 0
  THEN [w EXCEPT !.announce = [over |-> TRUE, winner |-> 0, draw |-> TRUE]]
  ELSE handleNewTurn(autoSkipDead(autoSkipDead(w, FALSE), TRUE))

\* room.event is null: the read of room.event.effect throws, the rest does not run
turnEvent(w, eff) ==
  IF eff = "null" THEN w
  ELSE IF eff = "heal_1" THEN handleNewTurn(autoSkipDead(healAll(w), TRUE))
  ELSE IF eff = "shrimp_curse" THEN afterCurse(curseAll(w), AliveSeq(curseAll(w)))
  ELSE handleNewTurn(autoSkipDead(w, TRUE))

startNewTurn(w, way) ==
  IF ~w.room.started THEN w
  ELSE turnEvent(resetDecisions(IF w.room.divineCardActive # {}
                                THEN DivineLoop(w, 1, way) ELSE w),
                 w.room.event.effect)

startPlayCardPhase(w, way) ==
  startNewTurn([w EXCEPT !.room.phase = "playCard"], way)

\* the 30 s callback set by startNewTurn
autoSkipCallback(w, way) ==
  IF w.room.phase # "playCard" THEN w
  ELSE LET hit == {p \in ListSet(w) : w.players[p].isDisconnected /\ ~w.players[p].hasDecided}
           w1  == [w EXCEPT !.players = [p \in Slots |->
                      IF p \in hit
                      THEN [@[p] EXCEPT !.playedCard = NoCard, !.hasDecided = TRUE]
                      ELSE @[p]]]
       IN IF hit # {} /\ \A p \in ListSet(w1) : w1.players[p].hasDecided
          THEN startEventSlot(w1, way)
          ELSE w1

(***************************************************************************)
(* index.js: processAfterPlayDecisions.  A timer whose callback only emits *)
(* is folded into the handler that sets it: the game-over result is        *)
(* announced (winner 0 is a draw) when the handler runs.                   *)
(***************************************************************************)
Announce(w, win) ==
  [w EXCEPT !.announce = [over |-> TRUE, winner |-> win, draw |-> win = 0]]

processAfterPlayDecisions(w) ==
  IF ~(\A p \in ListSet(w) : w.players[p].hasDecided) THEN w
  ELSE
  LET skipped == {p \in ListSet(w) : w.players[p].hasDecided /\ w.players[p].playedCard = NoCard}
      alive   == AliveSeq(w)
      played  == FilterSeq(alive, {p \in Slots : w.players[p].hasDecided
                                                  /\ w.players[p].playedCard # NoCard})
  IN IF Len(alive) <= 1
     THEN Announce(w, IF Len(alive) = 1 THEN alive[1] ELSE 0)
     ELSE IF Len(played) # Len(alive) THEN w
     ELSE LET w1 == IF Len(played) = 1 /\ skipped # {}
                    THEN [w EXCEPT !.players = [p \in Slots |->
                            IF p \in skipped /\ Living(w, p)
                            THEN [@[p] EXCEPT !.heart = Max(0, @ - 1)]
                            ELSE @[p]]]
                    ELSE w
          IN AddT(w1, T0("toAction"))

\* the 2 s callback set by processAfterPlayDecisions
toActionCallback(w) ==
  handleActionPhase([w EXCEPT !.room.phase = "action"])


(***************************************************************************)
(* botManager.js: the bot policy.  Scores and weights are doubled.         *)
(***************************************************************************)
HasSkill(c) == c # Undef /\ c # NoCard /\ CardOf(c).skill \notin {"none", "salt"}

safeScore2(c, competition, event) ==
  IF c = Undef \/ c = NoCard THEN 0
  ELSE calculateScore2(StatsOf(c), CardOf(c), competition, event)

isHostileEvent(event) == event.effect \in {"shrimp_curse", "stat_minus_2", "max_stat_zero"}

rarityWeight(rarity) == IF rarity = "fes" THEN 8 ELSE IF rarity = "limit" THEN 4 ELSE 0

preferenceOf(sk, bot, r) ==
  CASE sk = "leek shield"   -> IF bot.heart <= 2 THEN 35 ELSE 18
    [] sk = "never give up" -> IF bot.heart < MaxHeart THEN 25 ELSE 10
    [] sk = "divine card"   -> IF bot.heart <= 2 THEN 40 ELSE 12
    [] sk = "gacha god"     -> IF Len(bot.hand) <= 3 THEN 22 ELSE 8
    [] sk = "golden microphone" -> IF r.competition = "vocal" THEN 24 ELSE 10
    [] sk = "feet of fire"      -> IF r.competition = "dance" THEN 24 ELSE 10
    [] sk = "makeup shop visit" -> IF r.competition = "visual" THEN 24 ELSE 10
    [] sk \in {"mic power cut", "freeze spell", "banana slip"} -> 12
    [] sk = "fate control"  -> IF isHostileEvent(r.event) THEN 28 ELSE 6
    [] sk = "hidden skill"  -> 16
    [] OTHER -> 5

skillPreference(c, bot, r) ==
  IF ~HasSkill(c) THEN 0 ELSE preferenceOf(CardOf(c).skill, bot, r)

\* Math.round of a score given doubled
Round2(s2) == (s2 + 1) \div 2

\* chooseCard: the hand is weighed, sorted by weight (a stable sort), and the best
\* card is picked, or the runner-up when it is within 8 and the coin says so.
\* The result is the index in the hand of the pick, 0 for a skip.
cardBase(w, b, i) ==
  safeScore2(w.players[b].hand[i],
             IF w.room.competition = "null" THEN "vocal" ELSE w.room.competition,
             w.room.event)

cardValue(w, b, i) ==
  cardBase(w, b, i) + 2 * (skillPreference(w.players[b].hand[i], w.players[b], w.room)
                           + rarityWeight(CardOf(w.players[b].hand[i]).rarity))

\* first index of the largest value among the indices in S
topCard(vals, S) ==
  CHOOSE i \in S : \A j \in S : vals[j] < vals[i] \/ (vals[j] = vals[i] /\ i <= j)

runnerUpCard(vals, rest) == IF rest = {} THEN 0 ELSE topCard(vals, rest)

pickCard(vals, second, best, runnerUp) ==
  IF runnerUp # 0 /\ vals[best] - vals[runnerUp] <= 16 /\ second THEN runnerUp ELSE best

pickAmong(vals, second, best) ==
  pickCard(vals, second, best, runnerUpCard(vals, (DOMAIN vals) \ {best}))

pickFrom(vals, second) == pickAmong(vals, second, topCard(vals, DOMAIN vals))

chosen(w, b, pick) == [pick |-> pick, proj |-> 2 * Max(0, Round2(cardBase(w, b, pick)))]

chooseCard(w, b, second) ==
  IF Len(w.players[b].hand) = 0 THEN [pick |-> 0, proj |-> -1]
  ELSE chosen(w, b, pickFrom([i \in 1..Len(w.players[b].hand) |-> cardValue(w, b, i)],
                             second))

Opponents(w, b) == {p \in ListSet(w) : p # b /\ Living(w, p)}

useSkill(sk, w, b, proj2, coin) ==
  LET bot == w.players[b]
      r   == w.room
  IN CASE sk = "leek shield"   -> bot.heart <= 4
       [] sk = "never give up" -> bot.heart < MaxHeart /\ (bot.heart <= 4 \/ r.turn >= 5)
       [] sk = "divine card"   -> bot.heart <= 2 \/ (bot.heart <= 3 /\ r.turn >= 4)
       [] sk = "gacha god"     -> Len(bot.hand) <= 3 \/ proj2 < 90
       [] sk = "golden microphone" -> r.competition = "vocal" \/ proj2 < 110
       [] sk = "feet of fire"      -> r.competition = "dance" \/ proj2 < 110
       [] sk = "makeup shop visit" -> r.competition = "visual" \/ proj2 < 110
       [] sk \in {"mic power cut", "freeze spell", "banana slip"} ->
            Cardinality(Opponents(w, b)) >= 2
       [] sk = "fate control"  -> isHostileEvent(r.event)
       [] sk = "hidden skill"  -> Cardinality(Opponents(w, b)) >= 2 /\ coin
       [] OTHER -> FALSE

shouldUseSkill(w, b, proj2, coin) ==
  IF w.players[b].playedCard = NoCard \/ ~HasSkill(w.players[b].playedCard) THEN FALSE
  ELSE IF w.players[b].actionCooldown > 0 THEN FALSE
  ELSE useSkill(CardOf(w.players[b].playedCard).skill, w, b, proj2, coin)

shouldGacha(w, b, proj2) ==
  LET bot == w.players[b]
  IN \/ Len(bot.hand) <= 2
     \/ proj2 <= 70 /\ bot.heart > 2 /\ w.room.turn <= 8
     \/ w.room.event.effect = "special_battle" /\ proj2 < 120

shouldFlee(w, b, proj2) ==
  LET bot == w.players[b]
  IN IF bot.heart <= 1 THEN FALSE
     ELSE IF Cardinality(Opponents(w, b)) < 2 THEN FALSE
     ELSE \/ proj2 < 40 /\ w.room.turn >= 4
          \/ w.room.event.effect = "shrimp_curse" /\ proj2 < 50

\* the projected score chooseCard left, else the score of the played card
projectedScore2(w, b) ==
  IF w.botState[b] # -1 THEN w.botState[b]
  ELSE safeScore2(w.players[b].playedCard,
                  IF w.room.competition = "null" THEN "vocal" ELSE w.room.competition,
                  w.room.event)

\* the ladder with Gacha tried before Flee
actionForGachaFirst(w, b, proj2, coin) ==
  IF shouldUseSkill(w, b, proj2, coin) THEN Skill
  ELSE IF shouldGacha(w, b, proj2) THEN Gacha
  ELSE IF shouldFlee(w, b, proj2) THEN Flee
  ELSE Compete

actionFor(w, b, proj2, coin) ==
  IF shouldUseSkill(w, b, proj2, coin) THEN Skill
  ELSE IF shouldFlee(w, b, proj2) THEN Flee
  ELSE IF shouldGacha(w, b, proj2) THEN Gacha
  ELSE Compete

decideAction(w, b, coin) == actionFor(w, b, projectedScore2(w, b), coin)

\* Array.filter(c => c.id !== id)
RECURSIVE WithoutId(_, _)
WithoutId(hand, id) ==
  IF hand = << >> THEN << >>
  ELSE (IF Head(hand) # Undef /\ CardId(Head(hand)) = id THEN << >> ELSE <<Head(hand)>>)
       \o WithoutId(Tail(hand), id)

HasId(hand, id) == \E i \in 1..Len(hand) : hand[i] # Undef /\ CardId(hand[i]) = id


(***************************************************************************)
(* skillManager.js: activateSkill / isSkillBlocked / clearTemporaryEffects.*)
(* The maps protectedPlayers, skillBlockActive, divineCardActive and       *)
(* statModifiers are keyed by player.id there; a map is the set of its     *)
(* keys, statModifiers a function from its keys to [vocal, dance, visual]. *)
(***************************************************************************)
NoMods == << >>
Mod(v, d, vi) == [vocal |-> v, dance |-> d, visual |-> vi]
\* Object.assign(a, b)
Assign(a, b) ==
  [k \in (DOMAIN a) \cup (DOMAIN b) |-> IF k \in DOMAIN b THEN b[k] ELSE a[k]]
One(k, m) == [x \in {k} |-> m]

\* the debuff loop: every other player (by socket id) with a played card
Debuff(w, p, others, m) ==
  LET hit == {SocketKey(w, q) : q \in {others[i] : i \in 1..Len(others)}
                                     \cap {q \in Slots : SocketKey(w, q) # SocketKey(w, p)
                                                         /\ w.players[q].playedCard # NoCard}}
  IN [k \in hit |-> m]

\* fate control that rerolls whatever the current event is
activateSkillAlwaysRerolls(w, skill, p, others, way) ==
  IF skill = "fate control"
  THEN [w |-> [w EXCEPT !.room = [getNextEvent(w.room, way).room
                                    EXCEPT !.event = getNextEvent(w.room, way).event]],
        mods |-> NoMods]
  ELSE [w |-> w, mods |-> NoMods]

activateSkill(w, skill, p, others, way) ==
  LET key == SocketKey(w, p)
      same == [w |-> w, mods |-> NoMods]
  IN CASE skill = "leek shield" ->
            [w |-> [w EXCEPT !.room.protectedPlayers = @ \cup {key}], mods |-> NoMods]
       [] skill = "never give up" ->
            [w |-> [w EXCEPT !.players[p].heart = Min(MaxHeart, @ + 2)], mods |-> NoMods]
       [] skill = "golden microphone" -> [w |-> w, mods |-> One(key, Mod(5, 0, 0))]
       [] skill = "feet of fire"      -> [w |-> w, mods |-> One(key, Mod(0, 5, 0))]
       [] skill = "makeup shop visit" -> [w |-> w, mods |-> One(key, Mod(0, 0, 5))]
       [] skill = "mic power cut" -> [w |-> w, mods |-> Debuff(w, p, others, Mod(-5, 0, 0))]
       [] skill = "freeze spell"  -> [w |-> w, mods |-> Debuff(w, p, others, Mod(0, -5, 0))]
       [] skill = "banana slip"   -> [w |-> w, mods |-> Debuff(w, p, others, Mod(0, 0, -5))]
       [] skill = "fate control" ->
            IF w.room.event.effect \in {"reveal_cards", "special_battle", "draw_3"}
            THEN same
            ELSE LET n == getNextEvent(w.room, way)
                 IN [w |-> [w EXCEPT !.room = [n.room EXCEPT !.event = n.event]],
                     mods |-> NoMods]
       [] skill = "hidden skill" ->
            [w |-> [w EXCEPT !.room.skillBlockActive = @ \cup {key}], mods |-> NoMods]
       [] skill = "divine card" ->
            [w |-> [w EXCEPT !.room.divineCardActive = @ \cup {key}], mods |-> NoMods]
       [] OTHER -> same   \* salt, gacha god (drawn later), no skill, unknown skill

isSkillBlocked(r, playerId) == \E blockerId \in r.skillBlockActive : blockerId # playerId

\* the clearing that forgets the shields
clearTemporaryEffectsKeepsShield(w) ==
  [w EXCEPT !.room.skillBlockActive = {}]

clearTemporaryEffects(w) ==
  [w EXCEPT !.room.protectedPlayers = {}, !.room.skillBlockActive = {}]

(***************************************************************************)
(* index.js: resolveTurn, phase by phase.  pwc is playersWithCards.        *)
(***************************************************************************)
\* PHASE 1: skills of the Skill-action players, in the order of the list
afterSkill(r, p, skill) ==
  IF skill = "gacha god" THEN [r.w EXCEPT !.players[p].needsGachaGod = TRUE] ELSE r.w

RECURSIVE SkillPhase(_, _, _, _, _)
RECURSIVE SkillNext(_, _, _, _, _, _, _)
SkillNext(r, skill, p, pwc, i, mods, way) ==
  SkillPhase(afterSkill(r, p, skill), pwc, i + 1, Assign(mods, r.mods), way)

SkillPhase(w, pwc, i, mods, way) ==
  IF i > Len(pwc) THEN [w |-> w, mods |-> mods]
  ELSE IF w.players[pwc[i]].action # Skill \/ w.players[pwc[i]].playedCard = NoCard
  THEN SkillPhase(w, pwc, i + 1, mods, way)
  ELSE IF isSkillBlocked(w.room, getPlayerKey(w, pwc[i]))
  THEN SkillPhase(w, pwc, i + 1, mods, way)
  ELSE SkillNext(activateSkill(w, CardOf(w.players[pwc[i]].playedCard).skill,
                               pwc[i], pwc, way),
                 CardOf(w.players[pwc[i]].playedCard).skill, pwc[i], pwc, i, mods, way)

\* the scoring clone of the played card, with the player's stat modifiers
modified(s, m) ==
  [vocal  |-> IF m.vocal # 0 THEN Max(1, s.vocal + m.vocal) ELSE s.vocal,
   dance  |-> IF m.dance # 0 THEN Max(1, s.dance + m.dance) ELSE s.dance,
   visual |-> IF m.visual # 0 THEN Max(1, s.visual + m.visual) ELSE s.visual]

scoringCard(c, mods, playerKey) ==
  IF playerKey \in DOMAIN mods THEN modified(StatsOf(c), mods[playerKey]) ELSE StatsOf(c)

\* PHASE 2: scores and the action-specific adjustment
playerScore2(w, p, mods) ==
  calculateScore2(scoringCard(w.players[p].playedCard, mods, getPlayerKey(w, p)),
                  CardOf(w.players[p].playedCard), w.room.competition, w.room.event)

\* the adjustment without the Gacha price
actualScore2FreeGacha(action, score) ==
  IF action = Flee THEN 0 ELSE score

actualScore2(action, score) ==
  IF action = Gacha THEN Max(0, score - 10)
  ELSE IF action = Flee THEN 0
  ELSE score

\* a fleeing player's card is not put back in the hand
afterScoreCardLost(w, p) ==
  IF w.players[p].action = Skill
  THEN [w EXCEPT !.players[p].actionCooldown = IF @ > 0 THEN @ + 3 ELSE 3]
  ELSE IF w.players[p].action = Flee
  THEN [w EXCEPT !.players[p].heart = Max(0, @ - 1)]
  ELSE w

\* the scoring that writes its raised stats into the played card
afterScoreWritesCard(w, p) ==
  IF w.players[p].action = Skill
  THEN [w EXCEPT !.players[p].actionCooldown = IF @ > 0 THEN @ + 3 ELSE 3,
                 !.players[p].playedCard = Forged(CardId(@))]
  ELSE IF w.players[p].action = Flee
  THEN [w EXCEPT !.players[p].hand = Append(@, w.players[p].playedCard),
                 !.players[p].heart = Max(0, @ - 1)]
  ELSE w

afterScore(w, p) ==
  IF w.players[p].action = Skill
  THEN [w EXCEPT !.players[p].actionCooldown = IF @ > 0 THEN @ + 3 ELSE 3]
  ELSE IF w.players[p].action = Flee
  THEN [w EXCEPT !.players[p].hand = Append(@, w.players[p].playedCard),
                 !.players[p].heart = Max(0, @ - 1)]
  ELSE w

RECURSIVE ScorePhase(_, _, _, _, _, _)
RECURSIVE ScoreNext(_, _, _, _, _, _, _)
ScoreNext(w, pwc, i, mods, scores, maxScore, actual) ==
  ScorePhase(w, pwc, i + 1, mods, [scores EXCEPT ![pwc[i]] = actual],
             IF actual > maxScore THEN actual ELSE maxScore)

ScorePhase(w, pwc, i, mods, scores, maxScore) ==
  IF i > Len(pwc) THEN [w |-> w, scores |-> scores, maxScore |-> maxScore]
  ELSE ScoreNext(afterScore(w, pwc[i]), pwc, i, mods, scores, maxScore,
                 actualScore2(w.players[pwc[i]].action, playerScore2(w, pwc[i], mods)))

\* PHASE 3: heart loss
\* every card player but the fleeing ones loses a heart, the best one too
HeartLossEveryone(w, pwc, scores, maxScore) ==
  [w EXCEPT !.players = [p \in Slots |->
     IF (\E i \in 1..Len(pwc) : pwc[i] = p) /\ @[p].action # Flee
     THEN [@[p] EXCEPT !.heart = Max(0, @ - 1)]
     ELSE @[p]]]

HeartLossPhase(w, pwc, scores, maxScore) ==
  LET S == {pwc[i] : i \in 1..Len(pwc)}
      winnersWithMaxScore == {p \in S : scores[p] = maxScore}
  IN IF Cardinality(winnersWithMaxScore) = Len(pwc) THEN w
     ELSE [w EXCEPT !.players = [p \in Slots |->
             IF /\ p \in S
                /\ scores[p] < maxScore
                /\ getPlayerKey(w, p) \notin w.room.protectedPlayers
                /\ @[p].action # Flee
             THEN [@[p] EXCEPT !.heart = Max(0, @ - 1)]
             ELSE @[p]]]

\* PHASE 4: the played cards go to the used pile, the draws are queued
RECURSIVE ReturnPhase(_, _, _, _)
ReturnPhase(w, pwc, i, toDraw) ==
  IF i > Len(pwc) THEN [w EXCEPT !.room.playersToDraw = toDraw]
  ELSE LET p  == pwc[i]
           pl == w.players[p]
           q1 == IF pl.action = Gacha THEN <<[player |-> p, count |-> 1]>> ELSE << >>
           q2 == IF pl.needsGachaGod THEN <<[player |-> p, count |-> 2]>> ELSE << >>
       IN IF pl.action # Flee
          THEN ReturnPhase([w EXCEPT !.deck = returnCard(@, pl.playedCard),
                                     !.players[p].needsGachaGod = FALSE,
                                     !.players[p].playedCard = NoCard,
                                     !.players[p].hasDecided = FALSE],
                           pwc, i + 1, toDraw \o q1 \o q2)
          ELSE ReturnPhase([w EXCEPT !.players[p].playedCard = NoCard,
                                     !.players[p].hasDecided = FALSE],
                           pwc, i + 1, toDraw)

\* the played cards sent for the face-up reveal: those of the players who did not flee
playedCardsForDisplay(w, pwc) == FilterSeq(pwc, {p \in Slots : w.players[p].action # Flee})

hasPendingDivine(w, p) == getPlayerKey(w, p) \in w.room.divineCardActive
isPlayerAlive(w, p) ==
  /\ w.players[p].heart > 0 \/ hasPendingDivine(w, p)
  /\ Len(w.players[p].hand) > 0 \/ hasPendingDivine(w, p)

\* the termination evaluation: marks the newly dead, sets the timer chain
markDead(w) ==
  [w EXCEPT !.players = [p \in Slots |->
      IF InList(w, p) /\ ~isPlayerAlive(w, p) THEN [@[p] EXCEPT !.isDead = TRUE] ELSE @[p]]]

evaluated(w, gameOver, win) ==
  AddT(IF gameOver THEN Announce(w, win) ELSE w,
       Timer("deferredDraw", 0, gameOver, win, FALSE))

evaluate(w, alive) ==
  evaluated(markDead(w), Len(alive) <= 1, IF Len(alive) = 1 THEN alive[1] ELSE 0)

GameOverPhase(w) ==
  evaluate(w, FilterSeq(w.list, {p \in Slots : isPlayerAlive(w, p)}))

afterScores(s2, pwc) ==
  GameOverPhase(clearTemporaryEffects(
    ReturnPhase(HeartLossPhase(s2.w, pwc, s2.scores, s2.maxScore), pwc, 1, << >>)))

\* room.event is null: the handler throws in the scoring loop
afterSkills(s1, pwc) ==
  IF s1.w.room.event.effect = "null" THEN s1.w
  ELSE afterScores(ScorePhase(s1.w, pwc, 1, s1.mods, [p \in Slots |-> 0], -2), pwc)

resolvePlayed(w, pwc, way) ==
  IF Len(pwc) = 0
  THEN AddT([w EXCEPT !.room.turn = @ + 1], T0("startNewTurn"))
  ELSE afterSkills(SkillPhase(w, pwc, 1, NoMods, way), pwc)

playersWithCards(w) == FilterSeq(w.list, {p \in Slots : w.players[p].playedCard # NoCard})

resolveStarted(w, way) == resolvePlayed(w, playersWithCards(w), way)

resolveTurn(w, way) ==
  resolveStarted(handleRoomReset([w EXCEPT !.room.phase = "resolve",
                                           !.resolves = Min(MaxResolves, @ + 1)]), way)

\* the callbacks that emit turnResult and returnCards are folded into resolveTurn;
\* the next callback draws the deferred cards
RECURSIVE DrawLoop(_, _, _)
DrawLoop(w, q, way) ==
  IF q = << >> THEN w
  ELSE DrawLoop(giveCards(w, Head(q).player, drawCards(w.deck, Head(q).count, way)),
                Tail(q), way)

deferredDrawCallback(w, t, way) ==
  AddT(DrawLoop(w, w.room.playersToDraw, way), Timer("advance", 0, t.over, t.win, FALSE))

advanceCallback(w, t) ==
  IF ~t.over
  THEN AddT([w EXCEPT !.room.turn = @ + 1, !.room.playersToDraw = << >>],
            T0("startEventSlot"))
  ELSE [w EXCEPT !.room.started = FALSE, !.room.phase = "lobby",
                 !.players = [p \in Slots |->
                    IF InList(w, p)
                    THEN [@[p] EXCEPT !.ready = IsBot(p), !.playedCard = NoCard,
                                      !.action = NoAction, !.hasDecided = FALSE]
                    ELSE @[p]]]

allActionsChosen(w) ==
  \A p \in ListSet(w) : w.players[p].playedCard # NoCard => w.players[p].action # NoAction

processAfterActionSelections(w, way) ==
  IF allActionsChosen(w) THEN resolveTurn(w, way) ELSE w

setAction(w, p, action) == [w EXCEPT !.players[p].action = action]

(***************************************************************************)
(* index.js: the hooks BotManager calls (botPlayCard, botChooseAction),    *)
(* and the callbacks of the two bot timers.                                *)
(***************************************************************************)
botPlayCard(w, b, card, skipTurn) ==
  LET pl == w.players[b]
      skip == [w EXCEPT !.players[b].playedCard = NoCard, !.players[b].hasDecided = TRUE]
  IN IF w.room.phase # "playCard" THEN w
     ELSE IF pl.heart = 0 \/ Len(pl.hand) = 0 THEN processAfterPlayDecisions(skip)
     ELSE IF skipTurn \/ card = NoCard THEN processAfterPlayDecisions(skip)
     ELSE LET ownedCard == IF HasId(pl.hand, CardId(card)) THEN card ELSE pl.hand[1]
          IN processAfterPlayDecisions(
               [w EXCEPT !.players[b].playedCard = ownedCard,
                         !.players[b].hand = WithoutId(@, CardId(ownedCard)),
                         !.players[b].hasDecided = TRUE])

botChooseAction(w, b, action, way) ==
  IF w.players[b].playedCard = NoCard THEN w
  ELSE IF w.room.phase # "playCard" /\ w.room.phase # "action" THEN w
  ELSE processAfterActionSelections(setAction(w, b, action), way)

\* the timer set by handleNewTurn: its map entry goes, the bot picks and plays
playChosen(w, b, d) ==
  IF d.pick = 0 THEN botPlayCard(w, b, NoCard, TRUE)
  ELSE botPlayCard([w EXCEPT !.botState[b] = d.proj], b, w.players[b].hand[d.pick], FALSE)

botCardRun(w, b, second) == playChosen(w, b, chooseCard(w, b, second))

botCardCallback(w, b, second) ==
  botCardRun([w EXCEPT !.timers = Untrack(@, {"botCard"}, b)], b, second)

\* the timer set by handleActionPhase
botActionRun(w, b, coin, way) == botChooseAction(w, b, decideAction(w, b, coin), way)

botActionCallback(w, b, coin, way) ==
  botActionRun([w EXCEPT !.timers = Untrack(@, {"botAction"}, b)], b, coin, way)

(***************************************************************************)
(* index.js: the socket handlers.  A handler's result is the world it      *)
(* leaves and whether it accepted the command (ok) or answered with an     *)
(* error.  The sender is the client of slot p, on the newest socket it     *)
(* has opened: socket p, or socket NewSocket(p) once it has reconnected.   *)
(***************************************************************************)
R(w, ok) == [w |-> w, ok |-> ok]

\* the socket id of the second connection of the client of slot p
NewSocket(p) == 10 + p
SocketOf(w, p) == IF w.players[p].id = NewSocket(p) THEN NewSocket(p) ELSE p

FindBySocket(w, p) == InList(w, p) /\ w.players[p].id = SocketOf(w, p)

isHost(w, p) == w.room.hostSocketId = SocketOf(w, p)
isAllReady(w) == Len(w.list) >= 2 /\ \A p \in ListSet(w) : w.players[p].ready

\* joinRoom by a socket that is not in the room: a new player object
onJoinRoom(w, p) ==
  IF w.room.started THEN R(w, FALSE)
  ELSE IF Len(w.list) >= MaxPlayers THEN R(w, FALSE)
  ELSE R([w EXCEPT !.list = Append(@, p),
                    !.players[p] = [NewPlayer(p) EXCEPT !.id = p]], TRUE)

onAddBot(w, p, b) ==
  IF ~isHost(w, p) THEN R(w, FALSE)
  ELSE IF w.room.started THEN R(w, FALSE)
  ELSE IF Len(w.list) >= MaxPlayers THEN R(w, FALSE)
  ELSE R([w EXCEPT !.list = Append(@, b), !.players[b] = NewPlayer(b)], TRUE)

onStartGame(w, p, way) ==
  IF ~isHost(w, p) THEN R(w, FALSE) ELSE R(startGame(w, way), TRUE)

onToggleReady(w, p, way) ==
  IF ~FindBySocket(w, p) THEN R(w, FALSE)
  ELSE LET w1 == [w EXCEPT !.players[p].ready = ~@]
       IN R(IF isAllReady(w1) THEN startGame(w1, way) ELSE w1, TRUE)

onPlayCard(w, p, card, skipTurn, way) ==
  LET pl == w.players[p]
  IN IF w.room.phase # "playCard" THEN R(w, FALSE)
     ELSE IF ~FindBySocket(w, p) THEN R(w, FALSE)
     ELSE IF pl.isDisconnected
     THEN LET w1 == [w EXCEPT !.players[p].playedCard = NoCard,
                              !.players[p].hasDecided = TRUE]
          IN R(IF \A q \in ListSet(w1) : w1.players[q].hasDecided
               THEN startEventSlot(w1, way) ELSE w1, TRUE)
     ELSE IF pl.heart = 0 THEN R(w, FALSE)
     ELSE IF ~skipTurn /\ ~HasId(pl.hand, CardId(card)) THEN R(w, FALSE)
     ELSE IF skipTurn
     THEN R(processAfterPlayDecisions(
              [w EXCEPT !.players[p].playedCard = NoCard,
                        !.players[p].hasDecided = TRUE]), TRUE)
     ELSE R(processAfterPlayDecisions(
              [w EXCEPT !.players[p].playedCard = card,
                        !.players[p].hand = WithoutId(@, CardId(card)),
                        !.players[p].hasDecided = TRUE]), TRUE)

onChooseAction(w, p, action, way) ==
  LET pl == w.players[p]
  IN IF w.room.phase # "playCard" /\ w.room.phase # "action" THEN R(w, FALSE)
     ELSE IF ~FindBySocket(w, p) THEN R(w, FALSE)
     ELSE IF pl.isDisconnected
     THEN LET w1 == [w EXCEPT !.players[p].action = Compete]
          IN R(IF \A q \in ListSet(w1) :
                     w1.players[q].playedCard # NoCard => w1.players[q].action # NoAction
               THEN resolveTurn(w1, way) ELSE w1, TRUE)
     ELSE IF pl.heart = 0 THEN R(w, FALSE)
     ELSE IF pl.playedCard = NoCard THEN R(w, FALSE)
     ELSE R(processAfterActionSelections(setAction(w, p, action), way), TRUE)

\* every player who played a card gets Compete
defaultActionsAll(w) ==
  [w EXCEPT !.players = [q \in Slots |->
     IF InList(w, q) /\ @[q].playedCard # NoCard
     THEN [@[q] EXCEPT !.action = Compete] ELSE @[q]]]

\* every player who played a card and chose no action gets Compete
defaultActions(w) ==
  [w EXCEPT !.players = [q \in Slots |->
     IF InList(w, q) /\ @[q].playedCard # NoCard /\ @[q].action = NoAction
     THEN [@[q] EXCEPT !.action = Compete] ELSE @[q]]]

onActionTimeout(w, way) ==
  IF w.room.phase # "action" THEN R(w, FALSE)
  ELSE R(resolveTurn(defaultActions(w), way), TRUE)

(***************************************************************************)
(* roomManager.js: removePlayer, resetRoom; index.js: the disconnect       *)
(* handler and its two timers.                                             *)
(***************************************************************************)
removePlayer(w, p) ==
  LET rest == FilterSeq(w.list, Slots \ {p})
      humans == FilterSeq(rest, Humans)
      newHost == IF humans # << >> THEN humans[1] ELSE rest[1]
      \* the removed object is out of the room; its slot is free for a new player
      w1 == [w EXCEPT !.list = rest, !.players[p] = [NewPlayer(p) EXCEPT !.id = Closed]]
  IN IF w.room.hostPlayerId = p
     THEN [w1 EXCEPT !.room.hostPlayerId = newHost,
                     !.room.hostSocketId = w.players[newHost].id]
     ELSE w1

roomManager_resetRoom(w, poolWay, deckWay) ==
  [w EXCEPT
     !.room = [NewRoom(poolWay) EXCEPT !.hostPlayerId = w.room.hostPlayerId,
                                       !.hostSocketId = w.room.hostSocketId],
     !.players = [q \in Slots |->
        IF InList(w, q)
        THEN [@[q] EXCEPT !.hand = << >>, !.heart = MaxHeart, !.ready = IsBot(q),
                          !.playedCard = NoCard, !.action = NoAction,
                          !.actionCooldown = 0, !.hasDecided = FALSE, !.isDead = FALSE]
        ELSE @[q]],
     !.deck = NewDeck(deckWay)]

resetRoom(w, poolWay, deckWay) == handleRoomReset(roomManager_resetRoom(w, poolWay, deckWay))

\* removedPlayer.isDisconnected = true marks the object that left the room
afterRemove(w, alive) ==
  IF ~w.room.started THEN w
  ELSE IF Len(alive) = 1 THEN AddT(Announce(w, alive[1]), T0("disconnectReset"))
  ELSE IF Len(alive) = 0 THEN AddT(Announce(w, 0), T0("disconnectReset"))
  ELSE w

removed(w) == afterRemove(w, AliveSeq(w))

onDisconnect(w, p) == removed(removePlayer(w, p))

\* the disconnect event of socket s of the client of slot p: removePlayer finds
\* the player by socket id, and the handler returns when it finds none
onSocketDisconnect(w, p, s) ==
  IF InList(w, p) /\ w.players[p].id = s THEN R(onDisconnect(w, p), TRUE) ELSE R(w, FALSE)

\* rejoinRoom on a new socket, naming the playerId of slot p
onRejoinRoom(w, p) ==
  IF ~InList(w, p) THEN R(w, FALSE)
  ELSE R([w EXCEPT !.players[p].id = NewSocket(p),
                   !.room.hostSocketId = IF w.room.hostPlayerId = p
                                         THEN NewSocket(p) ELSE @], TRUE)

(***************************************************************************)
(* The actions: one per socket command and one per timer callback.         *)
(***************************************************************************)
\* no draw ran a pile dry: every card in a hand is a defined card
Defined(w) ==
  \A p \in Slots : \A i \in 1..Len(w.players[p].hand) : w.players[p].hand[i] # Undef

\* a handler's step; a rejected command leaves every variable as it was
Step(r, op, p) == Defined(r.w) /\ Becomes(r.w)

\* the sockets that are connected: a disconnect takes the player out of the list
Connected == {p \in Humans : FindBySocket(World, p)}
PendingKind(k) == {t \in BagToSet(timers) : t.k = k}
Fired(t) == DelT(World, t)
Actions == {Gacha, Skill, Compete, Flee}

StartGameCmd ==
  \E p \in Connected, way \in Ways :
    /\ games < MaxGames
    /\ ~room.started
    /\ Step(onStartGame(World, p, way), "startGame", p)

ToggleReadyCmd ==
  \E p \in Connected, way \in Ways :
    /\ games < MaxGames
    /\ ~room.started
    /\ Step(onToggleReady(World, p, way), "toggleReady", p)

\* a client names any card, as often as it likes; it skips once
PlayCardCmd ==
  \E p \in Connected, card \in 1..NumCards, skipTurn \in BOOLEAN, way \in Ways :
    /\ skipTurn => ~players[p].hasDecided
    /\ Step(onPlayCard(World, p, card, skipTurn, way), "playCard", p)

\* a client plays a card of its hand once, sending the card object as its hand
\* holds it or with stats of its own
PlayPayloadCmd ==
  \E p \in Connected, forge \in BOOLEAN, way \in Ways : \E i \in 1..Len(players[p].hand) :
    /\ ~players[p].hasDecided
    /\ Step(onPlayCard(World, p, IF forge THEN Forged(CardId(players[p].hand[i]))
                                  ELSE players[p].hand[i], FALSE, way), "playCard", p)

\* a client chooses its action once in a turn
ChooseActionCmd ==
  \E p \in Connected, action \in Actions, way \in Ways :
    /\ players[p].action = NoAction
    /\ Step(onChooseAction(World, p, action, way), "chooseAction", p)

ActionTimeoutCmd ==
  \E p \in Connected, way \in Ways :
    Step(onActionTimeout(World, way), "actionTimeout", p)

\* the model follows the room up to the disconnect that would delete it
DisconnectCmd ==
  \E p \in Connected :
    /\ Len(list) > 1
    /\ Step(R(onDisconnect(World, p), TRUE), "disconnect", p)

\* the client's first socket closes, before or after the client reconnected
OldDisconnectCmd ==
  \E p \in Humans :
    /\ Len(list) > 1
    /\ Step(onSocketDisconnect(World, p, p), "disconnect", p)

\* a client reconnects once
RejoinCmd ==
  \E p \in Humans :
    /\ players[p].id # NewSocket(p)
    /\ Step(onRejoinRoom(World, p), "rejoinRoom", p)

JoinRoomCmd ==
  \E p \in {q \in Humans : players[q].id = NoSocket} : Step(onJoinRoom(World, p), "joinRoom", p)

AddBotCmd ==
  \E p \in Connected, b \in Bots :
    /\ ~InList(World, b)
    /\ Step(onAddBot(World, p, b), "addBot", p)

StartEventSlotTimer ==
  \E t \in PendingKind("startEventSlot"), way \in Ways :
    /\ room.turn <= MaxTurn
    /\ Step(R(startEventSlot(Fired(t), way), TRUE), "startEventSlot", 0)

StartCompetitionSlotTimer ==
  \E t \in PendingKind("startCompetitionSlot"), comp \in Competitions :
    Step(R(startCompetitionSlot(Fired(t), comp), TRUE), "startCompetitionSlot", 0)

CompetitionResultTimer ==
  \E t \in PendingKind("competitionResult") :
    Step(R(afterCompetitionResult(Fired(t)), TRUE), "competitionResult", 0)

MikudayoDrawTimer ==
  \E t \in PendingKind("mikudayoDraw"), way \in Ways :
    Step(R(mikudayoDrawCallback(Fired(t), way), TRUE), "mikudayoDraw", 0)

StartPlayCardPhaseTimer ==
  \E t \in PendingKind("startPlayCardPhase"), way \in Ways :
    Step(R(startPlayCardPhase(Fired(t), way), TRUE), "startPlayCardPhase", 0)

StartNewTurnTimer ==
  \E t \in PendingKind("startNewTurn"), way \in Ways :
    /\ room.turn <= MaxTurn
    /\ Step(R(startNewTurn(Fired(t), way), TRUE), "startNewTurn", 0)

AutoSkipTimer ==
  \E t \in PendingKind("autoSkip"), way \in Ways :
    Step(R(autoSkipCallback(Fired(t), way), TRUE), "autoSkip", 0)

ToActionTimer ==
  \E t \in PendingKind("toAction") :
    Step(R(toActionCallback(Fired(t)), TRUE), "toAction", 0)

DeferredDrawTimer ==
  \E t \in PendingKind("deferredDraw"), way \in Ways :
    Step(R(deferredDrawCallback(Fired(t), t, way), TRUE), "deferredDraw", 0)

AdvanceTimer ==
  \E t \in PendingKind("advance") :
    Step(R(advanceCallback(Fired(t), t), TRUE), "advance", 0)

BotCardTimer ==
  \E t \in PendingKind("botCard"), second \in BOOLEAN :
    Step(R(botCardCallback(Fired(t), t.p, second), TRUE), "botCard", t.p)

BotActionTimer ==
  \E t \in PendingKind("botAction"), coin \in BOOLEAN, way \in Ways :
    Step(R(botActionCallback(Fired(t), t.p, coin, way), TRUE), "botAction", t.p)

DisconnectResetTimer ==
  \E t \in PendingKind("disconnectReset"), poolWay \in Ways, deckWay \in Ways :
    Step(R(resetRoom(Fired(t), poolWay, deckWay), TRUE), "disconnectReset", 0)

TimerFires ==
  \/ StartEventSlotTimer \/ StartCompetitionSlotTimer \/ CompetitionResultTimer
  \/ MikudayoDrawTimer \/ StartPlayCardPhaseTimer \/ StartNewTurnTimer
  \/ AutoSkipTimer \/ ToActionTimer
  \/ DeferredDrawTimer \/ AdvanceTimer
  \/ BotCardTimer \/ BotActionTimer
  \/ DisconnectResetTimer

Next ==
  \/ StartGameCmd \/ ToggleReadyCmd \/ PlayCardCmd \/ ChooseActionCmd
  \/ ActionTimeoutCmd \/ DisconnectCmd \/ JoinRoomCmd \/ AddBotCmd
  \/ TimerFires

Spec == Init /\ [][Next]_vars

(***************************************************************************)
(* The deck alone: cards are drawn into one holder's hand and returned     *)
(* from it, from the deck a new room starts with.                          *)
(***************************************************************************)
\* the largest count one drawCards call asks for
MaxDraw == 3

DeckDraw ==
  \E n \in 1..MaxDraw, way \in Ways :
    /\ Len(players[Host].hand) + n <= NumCards
    /\ deck' = drawCards(deck, n, way).deck
    /\ players' = [players EXCEPT ![Host].hand = @ \o drawCards(deck, n, way).cards]
    /\ UNCHANGED <<list, room, timers, botState, announce, games, resolves>>

DeckReturn ==
  \E i \in 1..Len(players[Host].hand) :
    /\ players[Host].hand[i] # Undef
    /\ deck' = returnCard(deck, players[Host].hand[i])
    /\ players' = [players EXCEPT ![Host].hand =
                     SubSeq(@, 1, i - 1) \o SubSeq(@, i + 1, Len(@))]
    /\ UNCHANGED <<list, room, timers, botState, announce, games, resolves>>

NextDeck == DeckDraw \/ DeckReturn

SpecDeck == Init /\ [][NextDeck]_vars

(***************************************************************************)
(* The event cycle on its own: getNextEvent as startEventSlot calls it, as *)
(* the fate-control skill calls it, and the reset of the position by       *)
(* GameStateManager.startGame.                                             *)
(***************************************************************************)
\* number of game starts explored in the event-cycle specification
MaxRestarts == 2

EventNext ==
  \E way \in Ways :
    /\ room.started
    /\ room' = [getNextEvent(room, way).room EXCEPT !.event = getNextEvent(room, way).event]
    /\ UNCHANGED <<players, list, deck, timers, botState, announce, games, resolves>>

EventFate ==
  \E way \in Ways :
    /\ room.started /\ room.event # NoEvent
    /\ room' = activateSkill(World, "fate control", Host, <<Host>>, way).w.room
    /\ UNCHANGED <<players, list, deck, timers, botState, announce, games, resolves>>

EventRestart ==
  \E way \in Ways :
    /\ games < MaxRestarts
    /\ Defined(GameStateManager_startGame(World, way))
    /\ Becomes(GameStateManager_startGame(World, way))

NextEvents == EventNext \/ EventFate \/ EventRestart

SpecEvents == Init /\ [][NextEvents]_vars

(***************************************************************************)
(* One turn from its action phase on: a match of two humans in which both  *)
(* have played a card, then the resolution, the deferred draws, and the    *)
(* staging of the next turn up to its playCard phase.  The 30 s timer of   *)
(* the turn is pending throughout; its callback does nothing here.         *)
(***************************************************************************)
\* the cards that are played in the turn, and the cards left in the hands
TurnCards == {1, 3, 5, 6, 7, 8}
HandCards == <<2, 4>>

RECURSIVE SeqOf(_)
SeqOf(S) ==
  IF S = {} THEN << >>
  ELSE <<CHOOSE x \in S : \A y \in S : x <= y>>
       \o SeqOf(S \ {CHOOSE x \in S : \A y \in S : x <= y})

TurnPlayer(p, heart, card, hand) ==
  [NewPlayer(p) EXCEPT !.id = p, !.heart = heart, !.playedCard = card, !.hand = hand,
                       !.hasDecided = TRUE]

TurnRoom(k, comp) ==
  [NewRoom(0) EXCEPT !.started = TRUE, !.turn = 1, !.phase = "action",
                     !.event = EVENTS[k], !.usedEvents = k,
                     !.seen = [i \in 1..k |-> EVENTS[i].name],
                     !.competition = IF EVENTS[k].effect = "special_battle"
                                     THEN "mystery" ELSE comp]

TurnHand(p, has) == IF has THEN <<HandCards[p]>> ELSE << >>

InitTurn ==
  \E c1 \in TurnCards, c2 \in TurnCards, has \in [Humans -> BOOLEAN],
     heart \in [Humans -> 1..MaxHeart], k \in 1..Len(EVENTS), comp \in Competitions :
    /\ c1 # c2
    /\ EVENTS[k].effect = "special_battle" => comp = "vocal"
    \* the turn began with the event: the drawn card, the curse, the heal
    /\ EVENTS[k].effect = "draw_3" => \A p \in Humans : has[p]
    /\ EVENTS[k].effect = "shrimp_curse" => \A p \in Humans : heart[p] < MaxHeart
    /\ EVENTS[k].effect = "heal_1" => \A p \in Humans : heart[p] > 1
    /\ players = [p \in Slots |->
                    IF p = 1 THEN TurnPlayer(1, heart[1], c1, TurnHand(1, has[1]))
                    ELSE IF p = 2 THEN TurnPlayer(2, heart[2], c2, TurnHand(2, has[2]))
                    ELSE NewPlayer(p)]
    /\ list = <<1, 2>>
    /\ room = TurnRoom(k, comp)
    /\ deck = [avail |-> SeqOf((TurnCards \cup {HandCards[p] : p \in {q \in Humans : ~has[q]}})
                                \ {c1, c2}),
               used |-> << >>, recycled |-> FALSE]
    /\ timers = SetToBag({T0("autoSkip")})
    /\ botState = [b \in Slots |-> -1]
    /\ announce = [over |-> FALSE, winner |-> 0, draw |-> FALSE]
    /\ games = 1
    /\ resolves = 0

\* the event slot of the turn that follows the modelled one
NextEventSlotTimer ==
  \E t \in PendingKind("startEventSlot"), way \in Ways :
    /\ room.turn <= MaxTurn + 1
    /\ Step(R(startEventSlot(Fired(t), way), TRUE), "startEventSlot", 0)

NextTurn ==
  \/ ChooseActionCmd \/ ActionTimeoutCmd
  \/ DeferredDrawTimer \/ AdvanceTimer \/ NextEventSlotTimer
  \/ StartCompetitionSlotTimer \/ CompetitionResultTimer \/ MikudayoDrawTimer
  \/ StartPlayCardPhaseTimer

SpecTurn == InitTurn /\ [][NextTurn]_vars

(***************************************************************************)
(* The scoring of one turn with three players: two humans and a bot have   *)
(* each played a card whose stats are small round numbers, and the room    *)
(* is in the action phase; the bot's action timer is pending.              *)
(***************************************************************************)
\* the cards that are played, and the card left in each player's hand
ScoreCards == {11, 12, 13, 14}
ScoreHands == <<1, 2, 3>>

ScorePlayer(p, heart, card) ==
  [NewPlayer(p) EXCEPT !.id = IF IsBot(p) THEN NoSocket ELSE p, !.heart = heart,
                       !.playedCard = card, !.hand = <<ScoreHands[p]>>,
                       !.hasDecided = TRUE]

InitScore ==
  \E card \in [Slots -> ScoreCards], heart \in 1..MaxHeart, k \in 1..Len(EVENTS),
     comp \in Competitions :
    /\ \A p, q \in Slots : p # q => card[p] # card[q]
    /\ EVENTS[k].effect = "special_battle" => comp = "vocal"
    /\ EVENTS[k].effect = "shrimp_curse" => heart < MaxHeart
    /\ EVENTS[k].effect = "heal_1" => heart > 1
    /\ players = [p \in Slots |-> ScorePlayer(p, heart, card[p])]
    /\ list = <<1, 2, 3>>
    /\ room = TurnRoom(k, comp)
    /\ deck = [avail |-> <<4, 5, 9>>, used |-> << >>, recycled |-> FALSE]
    /\ timers = SetToBag({T0("autoSkip"), Timer("botAction", 3, FALSE, 0, TRUE)})
    /\ botState = [b \in Slots |-> -1]
    /\ announce = [over |-> FALSE, winner |-> 0, draw |-> FALSE]
    /\ games = 1
    /\ resolves = 0

NextScore ==
  \/ ChooseActionCmd \/ ActionTimeoutCmd \/ BotActionTimer
  \/ DeferredDrawTimer \/ AdvanceTimer

SpecScore == InitScore /\ [][NextScore]_vars

(***************************************************************************)
(* A turn of three players in which one of them has played the divine      *)
(* card, from its action phase to the start of the turn that follows.      *)
(***************************************************************************)
\* the divine card, and the cards the two other players have played
DivineCard == 8
OtherCards == <<9, 4>>

InitDivine ==
  \E holder \in Slots, heart \in [Slots -> 1..MaxHeart], k \in 1..Len(EVENTS),
     comp \in Competitions :
    /\ EVENTS[k].effect = "special_battle" => comp = "vocal"
    /\ EVENTS[k].effect = "shrimp_curse" => \A p \in Slots : heart[p] < MaxHeart
    /\ EVENTS[k].effect = "heal_1" => \A p \in Slots : heart[p] > 1
    /\ players = [p \in Slots |->
                    ScorePlayer(p, heart[p],
                                IF p = holder THEN DivineCard
                                ELSE OtherCards[IF p < holder THEN p ELSE p - 1])]
    /\ list = <<1, 2, 3>>
    /\ room = TurnRoom(k, comp)
    /\ deck = [avail |-> <<5, 6, 7, 10>>, used |-> << >>, recycled |-> FALSE]
    /\ timers = SetToBag({T0("autoSkip"), Timer("botAction", 3, FALSE, 0, TRUE)})
    /\ botState = [b \in Slots |-> -1]
    /\ announce = [over |-> FALSE, winner |-> 0, draw |-> FALSE]
    /\ games = 1
    /\ resolves = 0

NextDivine ==
  \/ ChooseActionCmd \/ ActionTimeoutCmd \/ BotActionTimer
  \/ DeferredDrawTimer \/ AdvanceTimer \/ NextEventSlotTimer
  \/ StartCompetitionSlotTimer \/ CompetitionResultTimer \/ MikudayoDrawTimer
  \/ StartPlayCardPhaseTimer

SpecDivine == InitDivine /\ [][NextDivine]_vars

(***************************************************************************)
(* Reconnection in a running match: a turn of two humans from its action   *)
(* phase to the playCard phase of the turn that follows, while the first   *)
(* sockets close and the clients reconnect, in any order.                  *)
(***************************************************************************)
InitRejoin ==
  \E heart \in [Humans -> 1..MaxHeart], k \in 1..Len(EVENTS), comp \in Competitions :
    /\ EVENTS[k].effect = "special_battle" => comp = "vocal"
    /\ EVENTS[k].effect = "shrimp_curse" => \A p \in Humans : heart[p] < MaxHeart
    /\ EVENTS[k].effect = "heal_1" => \A p \in Humans : heart[p] > 1
    /\ players = [p \in Slots |->
                    IF p = 1 THEN TurnPlayer(1, heart[1], 1, TurnHand(1, TRUE))
                    ELSE IF p = 2 THEN TurnPlayer(2, heart[2], 3, TurnHand(2, TRUE))
                    ELSE NewPlayer(p)]
    /\ list = <<1, 2>>
    /\ room = TurnRoom(k, comp)
    /\ deck = [avail |-> <<5>>, used |-> << >>, recycled |-> FALSE]
    /\ timers = SetToBag({T0("autoSkip")})
    /\ botState = [b \in Slots |-> -1]
    /\ announce = [over |-> FALSE, winner |-> 0, draw |-> FALSE]
    /\ games = 1
    /\ resolves = 0

NextRejoin ==
  \/ RejoinCmd \/ OldDisconnectCmd \/ DisconnectResetTimer \/ NextTurn

SpecRejoin == InitRejoin /\ [][NextRejoin]_vars

(***************************************************************************)
(* The card payload of playCard: a turn of two humans from its playCard    *)
(* phase to the end of its resolution, the clients sending the card of     *)
(* their choice as the hand holds it or with forged stats.                 *)
(***************************************************************************)
PayloadHands == <<(<<1, 2>>), (<<4, 9>>)>>

InitPayload ==
  \E heart \in [Humans -> 1..MaxHeart], k \in 1..Len(EVENTS), comp \in Competitions :
    /\ EVENTS[k].effect = "special_battle" => comp = "vocal"
    /\ EVENTS[k].effect = "shrimp_curse" => \A p \in Humans : heart[p] < MaxHeart
    /\ EVENTS[k].effect = "heal_1" => \A p \in Humans : heart[p] > 1
    /\ players = [p \in Slots |->
                    IF p \in Humans
                    THEN [NewPlayer(p) EXCEPT !.id = p, !.heart = heart[p],
                                              !.hand = PayloadHands[p]]
                    ELSE NewPlayer(p)]
    /\ list = <<1, 2>>
    /\ room = [TurnRoom(k, comp) EXCEPT !.phase = "playCard"]
    /\ deck = [avail |-> <<5, 3>>, used |-> << >>, recycled |-> FALSE]
    /\ timers = SetToBag({T0("autoSkip")})
    /\ botState = [b \in Slots |-> -1]
    /\ announce = [over |-> FALSE, winner |-> 0, draw |-> FALSE]
    /\ games = 1
    /\ resolves = 0

NextPayload ==
  \/ PlayPayloadCmd \/ ToActionTimer \/ ChooseActionCmd \/ ActionTimeoutCmd
  \/ DeferredDrawTimer \/ AdvanceTimer

SpecPayload == InitPayload /\ [][NextPayload]_vars

(***************************************************************************)
(* The properties.                                                         *)
(***************************************************************************)
\* the cards the players in S hold: their hands and their playedCard slots
RECURSIVE Held(_)
Held(S) ==
  IF S = {} THEN << >>
  ELSE LET p == CHOOSE q \in S : TRUE
       IN players[p].hand
          \o (IF players[p].playedCard # NoCard THEN <<players[p].playedCard>> ELSE << >>)
          \o Held(S \ {p})

\* every card of the room: available pile, used pile, and what room.players hold
InRoom == deck.avail \o deck.used \o Held(ListSet(World))

AllDecided == \A p \in ListSet(World) : players[p].hasDecided
Undecided == {p \in ListSet(World) : Living(World, p) /\ ~players[p].hasDecided}
\* a match of at least two players whose game-over result is not out
Playing == room.started /\ Len(list) >= 2 /\ ~announce.over

\* C1: a started match terminates whatever the clients do, even when they send
\* nothing: so a started room whose game-over result is not out yet always has a
\* server timer pending to carry it on.
C1_Terminates == Playing => timers # EmptyBag

\* C2: when the 30 s deadline fires in the playCard phase, every living player
\* who has not decided is skipped (playedCard none, hasDecided true), connected
\* or not, and the room leaves playCard.
C2_DeadlineSkips ==
  \A t \in PendingKind("autoSkip"), way \in Ways :
    (Playing /\ room.phase = "playCard") =>
      /\ \A p \in Undecided :
           /\ autoSkipCallback(Fired(t), way).players[p].hasDecided
           /\ autoSkipCallback(Fired(t), way).players[p].playedCard = NoCard
      /\ autoSkipCallback(Fired(t), way).room.phase # "playCard"

\* C3: once every player of the room has decided in the playCard phase, the room
\* leaves playCard with no further client message: unless the game-over result
\* is out, a server timer other than the deadline is pending to move it on.
C3_DecidedLeaves ==
  (Playing /\ room.phase = "playCard" /\ AllDecided) =>
    \E t \in BagToSet(timers) : t.k # "autoSkip"

\* C4: between two consecutive playCard phases resolveTurn runs at most once.
C4_ResolveOnce == resolves <= 1

\* C5: every change of room.phase follows an edge of the state machine
\* (a reset to the lobby counts as the game-over edge from any phase).
PhaseEdges ==
  {<<"lobby", "drawCards">>, <<"drawCards", "eventSlot">>,
   <<"eventSlot", "competitionSlot">>, <<"competitionSlot", "playCard">>,
   <<"mikudayoDraw", "playCard">>, <<"playCard", "action">>,
   <<"action", "resolve">>, <<"resolve", "eventSlot">>}

C5_PhaseEdges ==
  [][room'.phase # room.phase =>
       \/ <<room.phase, room'.phase>> \in PhaseEdges
       \/ room'.phase = "lobby"
       \/ /\ room.phase = "competitionSlot" /\ room'.phase = "mikudayoDraw"
          /\ room'.event.effect = "draw_3"]_vars

\* C6: a protocol-violating command leaves the state as it is: playCard outside
\* the playCard phase, playCard of a card not in the hand, playCard or
\* chooseAction with heart 0, chooseAction with no played card, chooseAction
\* outside the action phase.
C6_Rejected ==
  \A p \in Connected, way \in Ways :
    Playing =>
    /\ \A card \in 1..NumCards, skipTurn \in BOOLEAN :
         (\/ room.phase # "playCard"
          \/ players[p].heart = 0
          \/ ~skipTurn /\ ~HasId(players[p].hand, CardId(card)))
         => onPlayCard(World, p, card, skipTurn, way).w = World
    /\ \A action \in Actions :
         (\/ room.phase # "action"
          \/ players[p].heart = 0
          \/ players[p].playedCard = NoCard)
         => onChooseAction(World, p, action, way).w = World

\* C7: after a player has decided in a playCard phase, a further playCard
\* command of that player changes neither its playedCard nor its hand.
C7_OneDecision ==
  \A p \in Connected, card \in 1..NumCards, skipTurn \in BOOLEAN, way \in Ways :
    (Playing /\ room.phase = "playCard" /\ players[p].hasDecided) =>
      /\ onPlayCard(World, p, card, skipTurn, way).w.players[p].playedCard
           = players[p].playedCard
      /\ onPlayCard(World, p, card, skipTurn, way).w.players[p].hand = players[p].hand

\* C8: the cards of the available pile, the used pile, the hands and the
\* playedCard slots number the deck's size, in every state of a match no player
\* has left.
C8_Conservation ==
  (Playing /\ \A p \in Slots : players[p].id # Closed) => Len(InRoom) = NumCards

\* C9: no card id occurs twice across the available pile, the used pile, the
\* hands and the playedCard slots.
C9_NoDuplicate ==
  \A k \in 1..NumCards : Cardinality({i \in DOMAIN InRoom : InRoom[i] = k}) <= 1

\* used cards have become the available pile, and a player who fled holds the
\* card it had played
C9_Witness ==
  /\ deck.recycled
  /\ \E p \in ListSet(World) :
       players[p].action = Flee /\ room.phase = "resolve" /\ players[p].hand # << >>

\* C10: drawCards(n) returns n defined cards whenever available + used >= n.
C10_DrawsDefined ==
  \A n \in 0..NumCards, way \in Ways :
    deckCount(deck) >= n =>
      /\ Len(drawCards(deck, n, way).cards) = n
      /\ \A i \in 1..n : drawCards(deck, n, way).cards[i] \in 1..NumCards

\* a draw has emptied the available pile, taken the used pile as the new one
\* and gone on: the holder has more cards than the available pile had
C10_Witness ==
  /\ deck.recycled
  /\ Len(players[Host].hand) >= 2
  /\ deck.avail # << >>

\* C11: the events returned since the pool was last shuffled are pairwise
\* distinct and number at most the pool's length, and the position stays within
\* 0..eventPool.length.
C11_EventCycle ==
  /\ \A i, j \in 1..Len(room.seen) : i # j => room.seen[i] # room.seen[j]
  /\ Len(room.seen) <= Len(room.eventPool)
  /\ room.usedEvents \in 0..Len(room.eventPool)

(***************************************************************************)
(* A resolution seen from the state that triggers it.                      *)
(***************************************************************************)
\* the players whose chooseAction the server accepts in this state
Choosers == {p \in Connected : onChooseAction(World, p, Compete, 0).ok}

\* the worlds resolveTurn is run on by a command sent in this state: by the
\* chooseAction that completes the actions, or by actionTimeout
ResolveInputs ==
  {w \in {setAction(World, p, a) : p \in Choosers, a \in Actions} :
     allActionsChosen(w) /\ w.room.event # NoEvent /\ playersWithCards(w) # << >>}
  \cup (IF room.phase = "action" /\ room.event # NoEvent /\ playersWithCards(World) # << >>
        THEN {defaultActions(World)} ELSE {})

\* the world and the stat modifiers after phase 1, the scores after phase 2, the
\* world after phase 3
Skilled(w, way) == SkillPhase(w, playersWithCards(w), 1, NoMods, way)
Scored(w, way) ==
  ScorePhase(Skilled(w, way).w, playersWithCards(w), 1, Skilled(w, way).mods,
             [p \in Slots |-> 0], -2)
HeartLost(w, way) ==
  HeartLossPhase(Scored(w, way).w, playersWithCards(w), Scored(w, way).scores,
                 Scored(w, way).maxScore)
CardPlayers(w) == {p \in ListSet(w) : w.players[p].playedCard # NoCard}
AllTie(w, way) ==
  \A p, q \in CardPlayers(w) : Scored(w, way).scores[p] = Scored(w, way).scores[q]

\* C12: in a resolution where all players who played a card end with equal
\* final scores, no player's heart is lower after the resolution than before.
C12_TieKeepsHearts ==
  \A w \in ResolveInputs, way \in Ways :
    AllTie(w, way) =>
      \A p \in ListSet(w) : resolveTurn(w, way).players[p].heart >= w.players[p].heart

\* C13: a player who flees scores 0, has the played card back in the hand and
\* not in the used pile, loses exactly 1 heart, and is not in the reveal list.
C13_FleeIsolation ==
  \A w \in ResolveInputs, way \in Ways :
    \A p \in CardPlayers(w) :
      w.players[p].action = Flee =>
        /\ Scored(w, way).scores[p] = 0
        /\ HasId(resolveTurn(w, way).players[p].hand, CardId(w.players[p].playedCard))
        /\ ~HasId(resolveTurn(w, way).deck.used, CardId(w.players[p].playedCard))
        /\ resolveTurn(w, way).players[p].playedCard = NoCard
        /\ w.players[p].heart >= 1 =>
             resolveTurn(w, way).players[p].heart = w.players[p].heart - 1
        /\ \A i \in DOMAIN playedCardsForDisplay(w, playersWithCards(w)) :
             playedCardsForDisplay(w, playersWithCards(w))[i] # p

\* a player is about to flee while the other competes
C13_Witness ==
  \E w \in ResolveInputs :
    \E p, q \in CardPlayers(w) :
      w.players[p].action = Flee /\ w.players[q].action = Compete

\* C14: when the card players do not all tie at the maximum, the heart-loss phase
\* takes exactly 1 heart (floored at 0) from every card player below the maximum
\* who is neither shielded nor fleeing, and none from a card player at the maximum.
\* (Shielded: the player's leek shield is in room.protectedPlayers.)
C14_HeartLoss ==
  \A w \in ResolveInputs, way \in Ways :
    ~(\A p \in CardPlayers(w) : Scored(w, way).scores[p] = Scored(w, way).maxScore) =>
      \A p \in CardPlayers(w) :
        /\ (/\ Scored(w, way).scores[p] < Scored(w, way).maxScore
            /\ SocketKey(w, p) \notin Scored(w, way).w.room.protectedPlayers
            /\ w.players[p].action # Flee)
           => HeartLost(w, way).players[p].heart
                = Max(0, Scored(w, way).w.players[p].heart - 1)
        /\ Scored(w, way).scores[p] = Scored(w, way).maxScore
           => HeartLost(w, way).players[p].heart = Scored(w, way).w.players[p].heart

\* a resolution with a strict loser who neither fled nor raised a shield
C14_Witness ==
  \E w \in ResolveInputs, way \in Ways : \E p \in CardPlayers(w) :
    /\ Scored(w, way).scores[p] < Scored(w, way).maxScore
    /\ w.players[p].action = Compete
    /\ w.players[p].heart = 1

\* the resolution of the turn in which everyone competes
AllCompete(w) == \A p \in CardPlayers(w) : w.players[p].action = Compete
PlainEvent(w) == w.room.event.effect \in {"draw_3", "shrimp_curse", "heal_1"}
VocalThree(w) ==
  /\ w.room.competition = "vocal" /\ PlainEvent(w) /\ AllCompete(w)
  /\ w.players[1].playedCard = 11 /\ w.players[2].playedCard = 12
  /\ w.players[3].playedCard = 13

\* the hearts of players 2 and 3 drop by 1 and player 1's heart stays
LosersPay(w, way) ==
  /\ resolveTurn(w, way).players[1].heart = w.players[1].heart
  /\ resolveTurn(w, way).players[2].heart = w.players[2].heart - 1
  /\ resolveTurn(w, way).players[3].heart = w.players[3].heart - 1

\* C15 (as stated): with cards (10,5,5), (5,10,5), (5,5,10) in a vocal
\* competition and everyone competing, the scores are 27.5, 20 and 17.5
\* (doubled: 55, 40, 35), player 1 wins, players 2 and 3 lose 1 heart each.
C15_ScenarioAsStated ==
  \A w \in ResolveInputs, way \in Ways :
    VocalThree(w) =>
      /\ Scored(w, way).scores[1] = 55
      /\ Scored(w, way).scores[2] = 40
      /\ Scored(w, way).scores[3] = 35
      /\ Scored(w, way).maxScore = Scored(w, way).scores[1]
      /\ LosersPay(w, way)

\* C15: with cards (10,5,5), (5,10,5), (5,5,10) in a vocal competition and
\* everyone competing, the scores are 32.5, 30 and 27.5 (doubled: 65, 60, 55),
\* player 1 alone has the top score, players 2 and 3 lose 1 heart each and
\* player 1 loses none.
C15_Scenario ==
  \A w \in ResolveInputs, way \in Ways :
    VocalThree(w) =>
      /\ Scored(w, way).scores[1] = 65
      /\ Scored(w, way).scores[2] = 60
      /\ Scored(w, way).scores[3] = 55
      /\ Scored(w, way).maxScore = Scored(w, way).scores[1]
      /\ LosersPay(w, way)

\* the three cards are on the table in a vocal turn and the actions time out
C15_Witness ==
  /\ VocalThree(defaultActions(World))
  /\ defaultActions(World) \in ResolveInputs

\* a card (1,1,10) competes in a visual turn under stat_minus_2
NerfedVisual(w, p) ==
  /\ w.room.competition = "visual" /\ w.room.event.effect = "stat_minus_2"
  /\ w.players[p].playedCard = 14 /\ w.players[p].action = Compete

\* C16 (as stated): under stat_minus_2 a card (1,1,10) in a visual competition
\* has stats (1,1,8) and scores 17.5 (doubled: 35).
C16_ScenarioAsStated ==
  \A w \in ResolveInputs, way \in Ways : \A p \in CardPlayers(w) :
    NerfedVisual(w, p) =>
      /\ statMinus(StatsOf(14).vocal, w.room.event) = 1
      /\ statMinus(StatsOf(14).dance, w.room.event) = 1
      /\ statMinus(StatsOf(14).visual, w.room.event) = 8
      /\ Scored(w, way).scores[p] = 35

\* C16: under stat_minus_2 a card (1,1,10) in a visual competition has stats
\* (1,1,8) and scores 8*2 + 1*1.5 + 1*1 = 18.5 (doubled: 37).
C16_Scenario ==
  \A w \in ResolveInputs, way \in Ways : \A p \in CardPlayers(w) :
    NerfedVisual(w, p) =>
      /\ statMinus(StatsOf(14).vocal, w.room.event) = 1
      /\ statMinus(StatsOf(14).dance, w.room.event) = 1
      /\ statMinus(StatsOf(14).visual, w.room.event) = 8
      /\ Scored(w, way).scores[p] = 37

\* the card (1,1,10) is about to compete in a visual turn under stat_minus_2
C16_Witness ==
  \E w \in ResolveInputs : \E p \in CardPlayers(w) : NerfedVisual(w, p)

\* the holders of a divine-card flag: the flag is stored under player.id
Flagged(w) == {p \in ListSet(w) : SocketKey(w, p) \in w.room.divineCardActive}

\* the turn is about to start: what the revival check does to a flag holder
RevivalAtTurnStart ==
  \A t \in PendingKind("startPlayCardPhase"), way \in Ways : \A p \in Flagged(World) :
    /\ p \notin Flagged(startPlayCardPhase(Fired(t), way))
    /\ players[p].heart = 0 =>
         /\ DivineLoop(Fired(t), 1, way).players[p].heart = 1
         /\ Len(DivineLoop(Fired(t), 1, way).players[p].hand)
              = Len(players[p].hand) + ReviveDraw
    /\ players[p].heart # 0 =>
         /\ DivineLoop(Fired(t), 1, way).players[p].heart = players[p].heart
         /\ DivineLoop(Fired(t), 1, way).players[p].hand = players[p].hand

\* a flag leaves room.divineCardActive only in the step that starts a turn
FlagLeavesAtTurnStart ==
  room.divineCardActive \ room'.divineCardActive # {}
    => room.phase # "playCard" /\ room'.phase = "playCard"

C18_DivineCountsAlive ==
  \A w \in ResolveInputs, way \in Ways : \A p \in CardPlayers(w) :
    (w.players[p].action = Skill /\ p \in Flagged(Skilled(w, way).w) \ Flagged(w)) =>
      /\ ~resolveTurn(w, way).players[p].isDead
      /\ (\E q \in ListSet(w) \ {p} : Living(resolveTurn(w, way), q))
           => ~resolveTurn(w, way).announce.over

\* the players that are alive after a resolution: heart > 0 and a card in the
\* hand, or a divine-card flag that is still pending
AliveAfter(r) == {p \in ListSet(r) : Living(r, p) \/ p \in Flagged(r)}

\* what the resolution that led to r declared, against the players alive in r
TerminationRule(r, alive) ==
  /\ r.announce.over <=> Cardinality(alive) <= 1
  /\ Cardinality(alive) = 1 => r.announce.winner \in alive /\ ~r.announce.draw
  /\ alive = {} => r.announce.draw /\ r.announce.winner = 0
  /\ r.announce.over /\ r.announce.winner # 0 => r.players[r.announce.winner].heart > 0
  /\ Cardinality(alive) >= 2 =>
       \E t \in BagToSet(r.timers) : t.k = "deferredDraw" /\ ~t.over

\* C19: a resolution declares game over exactly when at most one player is
\* alive; a single survivor is the winner and there is no draw; with nobody
\* alive it is a draw without winner; a winner has heart > 0; with two or more
\* alive the timer chain to the next turn is set.
C19_Termination ==
  \A w \in ResolveInputs, way \in Ways :
    TerminationRule(resolveTurn(w, way), AliveAfter(resolveTurn(w, way)))

\* the same rule with the players the code counts: heart > 0 and a card in hand
TerminationByHearts ==
  \A w \in ResolveInputs, way \in Ways :
    TerminationRule(resolveTurn(w, way),
                    {p \in ListSet(w) : Living(resolveTurn(w, way), p)})

\* the room is back in the lobby with the match state reset
BackInLobby ==
  /\ room.phase = "lobby" /\ ~room.started
  /\ \A p \in ListSet(World) :
       /\ players[p].hand = << >>
       /\ players[p].heart = MaxHeart
       /\ players[p].ready = IsBot(p)

\* a callback that ends the match is still to run
LobbyPending ==
  \E t \in BagToSet(timers) : t.k \in {"deferredDraw", "advance", "disconnectReset"}

\* C20: once game over is declared the room is back in the lobby with
\* started = false, every hand empty, every heart full and ready reset (false
\* for humans, true for bots), or a callback that takes it there is pending.
C20_ReturnsToLobby == announce.over => BackInLobby \/ LobbyPending

\* C21: a disconnect in a started match leaves the player in room.players with
\* the same heart and hand, flagged isDisconnected.
C21_DisconnectKeeps ==
  \A p \in Connected :
    (room.started /\ Len(list) > 1) =>
      /\ InList(onDisconnect(World, p), p)
      /\ onDisconnect(World, p).players[p].heart = players[p].heart
      /\ onDisconnect(World, p).players[p].hand = players[p].hand
      /\ onDisconnect(World, p).players[p].isDisconnected

\* the player of slot p is in the room, bound to the new socket, with the heart
\* and hand of now, and the server finds the player for the client's commands
Rebound(w, p) ==
  /\ InList(w, p)
  /\ w.players[p].id = NewSocket(p)
  /\ w.players[p].heart = players[p].heart
  /\ w.players[p].hand = players[p].hand
  /\ FindBySocket(w, p)

\* C22: in a started match the reconnection of a player succeeds whether the
\* old socket's disconnect or the new socket's rejoinRoom is handled first.
C22_RejoinEitherOrder ==
  \A p \in Humans :
    (room.started /\ Len(list) > 1 /\ InList(World, p) /\ players[p].id = p) =>
      /\ Rebound(onSocketDisconnect(onRejoinRoom(World, p).w, p, p).w, p)
      /\ Rebound(onRejoinRoom(onSocketDisconnect(World, p, p).w, p).w, p)

\* the order rejoin first, disconnect second
RejoinFirstRebinds ==
  \A p \in Humans :
    (room.started /\ Len(list) > 1 /\ InList(World, p) /\ players[p].id = p) =>
      Rebound(onSocketDisconnect(onRejoinRoom(World, p).w, p, p).w, p)

\* the living players who skipped and those who played, once the world r has
\* every decision; hearts and hands are read before the penalty, in w
LivingSkippers(w, r) ==
  {q \in ListSet(r) : r.players[q].playedCard = NoCard /\ Living(w, q)}
LivingPlayed(w, r) ==
  {q \in ListSet(r) : r.players[q].playedCard # NoCard /\ w.players[q].heart > 0}

SkipPenalty(w, r) ==
  (/\ \A q \in ListSet(r) : r.players[q].hasDecided
   /\ Cardinality(LivingPlayed(w, r)) = 1
   /\ LivingSkippers(w, r) # {}) =>
     /\ \A q \in LivingSkippers(w, r) : r.players[q].heart = w.players[q].heart - 1
     /\ \A q \in LivingPlayed(w, r) : r.players[q].heart = w.players[q].heart

\* C23: when a playCard command completes the decisions with exactly one living
\* player having played a card and a living player having skipped, every such
\* skipper has lost exactly 1 heart when the command returns, and the player
\* who played has lost none.
C23_SkipPenalty ==
  \A p \in Connected, card \in 1..NumCards, skipTurn \in BOOLEAN, way \in Ways :
    (room.phase = "playCard" /\ onPlayCard(World, p, card, skipTurn, way).ok) =>
      SkipPenalty(World, onPlayCard(World, p, card, skipTurn, way).w)

\* the action a card player has once the timeout is handled
TimedOutAction(p) == IF players[p].action = NoAction THEN Compete ELSE players[p].action

Genuine(w) ==
  [w EXCEPT !.players = [p \in Slots |->
      [@[p] EXCEPT !.playedCard = IF @ = NoCard THEN NoCard ELSE CardId(@)]]]

SameOutcome(r, g) ==
  /\ \A p \in ListSet(r) : r.players[p].heart = g.players[p].heart
  /\ r.deck = g.deck

\* C25: a resolution gives the scores, the hearts and the deck contents it
\* would give if every played card were the instance with that id from the
\* player's hand, whatever stats the playCard payloads carried.
C25_PayloadIgnored ==
  \A w \in ResolveInputs, way \in Ways :
    room.phase = "action" =>
    /\ Scored(w, way).scores = Scored(Genuine(w), way).scores
    /\ SameOutcome(resolveTurn(w, way), resolveTurn(Genuine(w), way))

\* the server accepts a playCard or a chooseAction of the client of slot p
Accepts(p) ==
  \/ \E card \in 1..NumCards, skipTurn \in BOOLEAN, way \in Ways :
       onPlayCard(World, p, card, skipTurn, way).ok
  \/ \E action \in Actions, way \in Ways : onChooseAction(World, p, action, way).ok

\* C26: in a running match a player marked eliminated (isDead) is not a living
\* player (heart > 0 and a card in hand) and has no playCard or chooseAction
\* accepted; a divine-card revival clears the mark.
C26_EliminatedStay ==
  \A p \in ListSet(World) :
    (room.started /\ players[p].isDead) =>
      /\ ~Living(World, p)
      /\ p \in Connected => ~Accepts(p)

\* C27: a startGame command does not start a match in a room with fewer than
\* two players or with a match in progress, and a toggleReady that arrives
\* while a match is in progress does not start one either.
C27_StartGuards ==
  \A p \in Connected, way \in Ways :
    /\ (Len(list) < 2 \/ room.started) => onStartGame(World, p, way).w.games = games
    /\ room.started => onToggleReady(World, p, way).w.games = games

RaisesShield(w, p, way) ==
  /\ w.players[p].action = Skill
  /\ CardOf(w.players[p].playedCard).skill = "leek shield"
  /\ SocketKey(w, p) \in Skilled(w, way).w.room.protectedPlayers

\* C29: a player whose Skill action raised a leek shield loses no heart in the
\* heart-loss phase of that resolution, and scores what the card scores when
\* it simply competes.
C29_LeekShield ==
  \A w \in ResolveInputs, way \in Ways : \A p \in CardPlayers(w) :
    RaisesShield(w, p, way) =>
      /\ HeartLost(w, way).players[p].heart = Scored(w, way).w.players[p].heart
      /\ Scored(w, way).scores[p] = Scored(setAction(w, p, Compete), way).scores[p]

(***************************************************************************)
(* The action phase of a turn in which both players played a card with a   *)
(* stat-modifying skill.                                                   *)
(***************************************************************************)
StatCards == {15, 16, 17, 18, 19, 20}

InitStat ==
  \E c1 \in StatCards, c2 \in StatCards, heart \in 1..MaxHeart,
     k \in 1..Len(EVENTS), comp \in Competitions :
    /\ c1 # c2
    /\ EVENTS[k].effect = "special_battle" => comp = "vocal"
    /\ EVENTS[k].effect = "shrimp_curse" => heart < MaxHeart
    /\ EVENTS[k].effect = "heal_1" => heart > 1
    /\ players = [p \in Slots |->
                    IF p = 1 THEN TurnPlayer(1, heart, c1, TurnHand(1, TRUE))
                    ELSE IF p = 2 THEN TurnPlayer(2, heart, c2, TurnHand(2, TRUE))
                    ELSE NewPlayer(p)]
    /\ list = <<1, 2>>
    /\ room = TurnRoom(k, comp)
    /\ deck = [avail |-> SeqOf(StatCards \ {c1, c2}), used |-> << >>, recycled |-> FALSE]
    /\ timers = SetToBag({T0("autoSkip")})
    /\ botState = [b \in Slots |-> -1]
    /\ announce = [over |-> FALSE, winner |-> 0, draw |-> FALSE]
    /\ games = 1
    /\ resolves = 0

SpecStat == InitStat /\ [][NextTurn]_vars

StatSkills ==
  {"golden microphone", "feet of fire", "makeup shop visit",
   "mic power cut", "freeze spell", "banana slip"}

\* the players whose stat-modifying skill is used and not blocked
StatCasters(w) ==
  {q \in CardPlayers(w) :
     /\ w.players[q].action = Skill
     /\ ~isSkillBlocked(w.room, getPlayerKey(w, q))
     /\ CardOf(w.players[q].playedCard).skill \in StatSkills}

\* what the skill of caster q does to the stats of player p
StatEffect(w, q, p) ==
  LET skill == CardOf(w.players[q].playedCard).skill
  IN CASE skill = "golden microphone" /\ q = p -> Mod(5, 0, 0)
       [] skill = "feet of fire" /\ q = p      -> Mod(0, 5, 0)
       [] skill = "makeup shop visit" /\ q = p -> Mod(0, 0, 5)
       [] skill = "mic power cut" /\ q # p     -> Mod(-5, 0, 0)
       [] skill = "freeze spell" /\ q # p      -> Mod(0, -5, 0)
       [] skill = "banana slip" /\ q # p       -> Mod(0, 0, -5)
       [] OTHER -> Mod(0, 0, 0)

RECURSIVE AllEffects(_, _, _)
AllEffects(w, S, p) ==
  IF S = {} THEN Mod(0, 0, 0)
  ELSE LET q == CHOOSE x \in S : TRUE
           e == StatEffect(w, q, p)
           rest == AllEffects(w, S \ {q}, p)
       IN Mod(e.vocal + rest.vocal, e.dance + rest.dance, e.visual + rest.visual)

\* the score of player p with every unblocked stat skill of the turn applied
StatScore(w, p, way) ==
  actualScore2(w.players[p].action,
               calculateScore2(modified(StatsOf(w.players[p].playedCard),
                                        AllEffects(w, StatCasters(w), p)),
                               CardOf(w.players[p].playedCard),
                               Skilled(w, way).w.room.competition,
                               Skilled(w, way).w.room.event))

\* C30: in every resolution, each player with a played card is scored with the
\* stats of the card changed by every unblocked stat-modifying skill of the
\* turn: +5 on the caster's own stat for golden microphone / feet of fire /
\* makeup shop visit, -5 (floored at 1) on every other player's stat for mic
\* power cut / freeze spell / banana slip, all of them when several apply.
C30_StatSkills ==
  \A w \in ResolveInputs, way \in Ways : \A p \in CardPlayers(w) :
    Scored(w, way).scores[p] = StatScore(w, p, way)

\* the Skill action of player q changes nothing in phase 1: the world and the
\* stat modifiers are those of the same turn with q competing instead
SkillInert(w, q, way) ==
  /\ Skilled(w, way).mods = Skilled(setAction(w, q, Compete), way).mods
  /\ [Skilled(w, way).w EXCEPT !.players[q].action = Compete]
       = Skilled(setAction(w, q, Compete), way).w

\* the players whose Skill action activates 'hidden skill' in this turn
Blockers(w, way) ==
  {b \in CardPlayers(w) :
     /\ w.players[b].action = Skill
     /\ CardOf(w.players[b].playedCard).skill = "hidden skill"
     /\ SocketKey(w, b) \in Skilled(w, way).w.room.skillBlockActive}

\* C31: in a turn where a player's Skill action activates 'hidden skill', the
\* Skill action of every other player has no effect, wherever the players
\* stand in the room's player list.
C31_HiddenSkill ==
  \A w \in ResolveInputs, way \in Ways : \A b \in Blockers(w, way) :
    \A q \in CardPlayers(w) \ {b} :
      w.players[q].action = Skill => SkillInert(w, q, way)

\* the worlds a pending timer starts the next turn on
TurnStartInputs ==
  {Fired(t) : t \in PendingKind("startPlayCardPhase") \cup PendingKind("startNewTurn")}

\* C32: a turn that starts under heal_1 (with no revival pending) raises the
\* heart of every living player (heart > 0 and a card in hand) by 1 up to the
\* ceiling and leaves the heart of every other player unchanged.
C32_HealLiving ==
  \A w \in TurnStartInputs, way \in Ways :
    (w.room.started /\ w.room.event # NoEvent /\ w.room.divineCardActive = {}) =>
      (w.room.event.effect = "heal_1" =>
         \A p \in ListSet(w) :
           startPlayCardPhase(w, way).players[p].heart
             = IF Living(w, p) THEN Min(MaxHeart, w.players[p].heart + 1)
               ELSE w.players[p].heart)

(***************************************************************************)
(* The action phase of a turn whose players carry a skill cooldown from    *)
(* earlier turns.                                                          *)
(***************************************************************************)
MaxCooldown == 2
CooldownCards == <<{5, 6}, {1, 3}>>

InitCooldown ==
  \E c1 \in CooldownCards[1], c2 \in CooldownCards[2],
     cd \in [Humans -> 0..MaxCooldown], k \in 1..Len(EVENTS), comp \in Competitions :
    /\ EVENTS[k].effect = "special_battle" => comp = "vocal"
    /\ players = [p \in Slots |->
                    IF p = 1
                    THEN [TurnPlayer(1, MaxHeart, c1, TurnHand(1, TRUE))
                            EXCEPT !.actionCooldown = cd[1]]
                    ELSE IF p = 2
                    THEN [TurnPlayer(2, MaxHeart, c2, TurnHand(2, TRUE))
                            EXCEPT !.actionCooldown = cd[2]]
                    ELSE NewPlayer(p)]
    /\ list = <<1, 2>>
    /\ room = TurnRoom(k, comp)
    /\ deck = [avail |-> SeqOf(TurnCards \ {c1, c2}), used |-> << >>, recycled |-> FALSE]
    /\ timers = SetToBag({T0("autoSkip")})
    /\ botState = [b \in Slots |-> -1]
    /\ announce = [over |-> FALSE, winner |-> 0, draw |-> FALSE]
    /\ games = 1
    /\ resolves = 0

SpecCooldown == InitCooldown /\ [][NextTurn]_vars

\* the cooldown of player p after n turn starts from world w
RECURSIVE CooldownAfter(_, _, _, _)
CooldownAfter(w, p, n, way) ==
  IF n = 0 THEN w.players[p].actionCooldown
  ELSE CooldownAfter(startNewTurn(w, way), p, n - 1, way)

\* a resolved Skill sets the cooldown to 3, or adds 3 to a running one, and
\* scores the full computed score; any other action leaves the cooldown
SkillSetsCooldown ==
  \A w \in ResolveInputs, way \in Ways : \A p \in CardPlayers(w) :
    IF w.players[p].action = Skill
    THEN /\ resolveTurn(w, way).players[p].actionCooldown
              = IF w.players[p].actionCooldown > 0
                THEN w.players[p].actionCooldown + 3 ELSE 3
         /\ Scored(w, way).scores[p]
              = playerScore2(Skilled(w, way).w, p, Skilled(w, way).mods)
    ELSE resolveTurn(w, way).players[p].actionCooldown = w.players[p].actionCooldown

\* a turn start lowers every cooldown by 1, not below 0
TurnStartDecrements ==
  \A w \in TurnStartInputs, way \in Ways : \A p \in ListSet(w) :
    w.room.started =>
      startPlayCardPhase(w, way).players[p].actionCooldown
        = Max(0, w.players[p].actionCooldown - 1)

\* a skill used at cooldown 0 is on cooldown in the next two turns and free
\* in the third
TwoTurnCooldown ==
  \A w \in ResolveInputs, way \in Ways : \A p \in CardPlayers(w) :
    (/\ w.players[p].action = Skill
     /\ w.players[p].actionCooldown = 0
     /\ resolveTurn(w, way).room.started) =>
      /\ CooldownAfter(resolveTurn(w, way), p, 1, way) > 0
      /\ CooldownAfter(resolveTurn(w, way), p, 2, way) > 0
      /\ CooldownAfter(resolveTurn(w, way), p, 3, way) = 0

GachaGods(w, way) ==
  {p \in CardPlayers(w) : w.players[p].action = Skill
                           /\ Skilled(w, way).w.players[p].needsGachaGod}
Gachas(w) == {p \in CardPlayers(w) : w.players[p].action = Gacha}

\* the world after the deferred-draw callback of the resolution of w has run
AfterDraws(w, way) ==
  LET r == resolveTurn(w, way)
      t == CHOOSE t \in BagToSet(r.timers) : t.k = "deferredDraw"
  IN deferredDrawCallback(DelT(r, t), t, way)

Copies(seq, c) == Cardinality({i \in DOMAIN seq : seq[i] = c})
StoredCopies(w, c) ==
  Copies(w.deck.avail, c) + Copies(w.deck.used, c)
  + Cardinality({p \in Slots : w.players[p].playedCard = c})
  + Cardinality(UNION {{<<p, i>> : i \in {j \in DOMAIN w.players[p].hand :
                                                 w.players[p].hand[j] = c}} : p \in Slots})
CardValues == (1..Len(CardData)) \cup {Forged(k) : k \in 1..Len(CardData)}

\* C35: a resolution leaves every stored card with the stats it had: each card
\* value (identity and vocal / dance / visual) is held by as many stored card
\* objects after the resolution as before, whatever skills and event applied.
C35_CardsPristine ==
  \A w \in ResolveInputs, way \in Ways : \A c \in CardValues :
    StoredCopies(resolveTurn(w, way), c) = StoredCopies(w, c)

\* a stat skill was used in a resolution and its card lies in the used pile
C35_Witness ==
  /\ resolves > 0
  /\ \E p \in ListSet(World) :
       /\ players[p].action = Skill
       /\ \E i \in DOMAIN deck.used : deck.used[i] \in StatCards

Unchangeable == {"reveal_cards", "special_battle", "draw_3"}

\* the room after 'fate control' is activated in the current state
FateRoom(way) == activateSkill(World, "fate control", Host, <<Host>>, way).w.room

\* the pool the next draw is taken from: reshuffled when the cycle is used up
DrawPool(r, way) ==
  IF r.usedEvents >= Len(r.eventPool) THEN shuffle(r.eventPool, way) ELSE r.eventPool
DrawPosition(r) == IF r.usedEvents >= Len(r.eventPool) THEN 1 ELSE r.usedEvents + 1

C37_TransientLifetime ==
  /\ room.protectedPlayers = {} /\ room.skillBlockActive = {}
  /\ \A w \in ResolveInputs, way \in Ways :
       /\ resolveTurn(w, way).room.protectedPlayers = {}
       /\ resolveTurn(w, way).room.skillBlockActive = {}
       /\ clearTemporaryEffects(HeartLost(w, way)).room.divineCardActive
            = HeartLost(w, way).room.divineCardActive
       /\ \A p \in CardPlayers(w) :
            SocketKey(w, p) \in HeartLost(w, way).room.divineCardActive
              => SocketKey(w, p) \in resolveTurn(w, way).room.divineCardActive

\* a resolution in which a leek shield and a divine card were both used has
\* ended: the shield is gone, the flag is pending
C37_Witness ==
  /\ resolves > 0
  /\ room.divineCardActive # {} /\ room.protectedPlayers = {}
  /\ \A p \in Humans : players[p].action = Skill
  /\ \E i, j \in DOMAIN deck.used :
       /\ CardOf(deck.used[i]).skill = "leek shield"
       /\ CardOf(deck.used[j]).skill = "divine card"

(***************************************************************************)
(* The playCard phase of a turn with two humans and a bot; the bot holds   *)
(* one card or two.                                                        *)
(***************************************************************************)
BotHands == {<<5>>, <<5, 3>>}

InitBot ==
  \E hand \in BotHands, k \in 1..Len(EVENTS), comp \in Competitions :
    /\ EVENTS[k].effect = "special_battle" => comp = "vocal"
    /\ EVENTS[k].effect \notin {"shrimp_curse", "heal_1"}
    /\ players = [p \in Slots |->
                    IF p \in Humans
                    THEN [NewPlayer(p) EXCEPT !.id = p, !.hand = PayloadHands[p]]
                    ELSE [NewPlayer(p) EXCEPT !.hand = hand]]
    /\ list = <<1, 2, 3>>
    /\ room = [TurnRoom(k, comp) EXCEPT !.phase = "playCard"]
    /\ deck = [avail |-> <<6, 7>>, used |-> << >>, recycled |-> FALSE]
    /\ timers = SetToBag({T0("autoSkip"), Timer("botCard", 3, FALSE, 0, TRUE)})
    /\ botState = [b \in Slots |-> -1]
    /\ announce = [over |-> FALSE, winner |-> 0, draw |-> FALSE]
    /\ games = 1
    /\ resolves = 0

NextBot ==
  \/ PlayPayloadCmd \/ BotCardTimer \/ ToActionTimer \/ BotActionTimer
  \/ ChooseActionCmd \/ ActionTimeoutCmd \/ DeferredDrawTimer \/ AdvanceTimer

SpecBot == InitBot /\ [][NextBot]_vars

\* bot b has its own timer of kind k pending
BotTimerPending(b, k) == \E t \in BagToSet(timers) : t.k = k /\ t.p = b

\* C38: in a running match, a living bot (heart > 0, a card in hand) that has
\* not decided in the playCard phase has its card timer pending, and a bot
\* that played a card and has no action yet in the action phase has its
\* action timer pending, so each decides without a client message.
C38_BotProgress ==
  room.started =>
    \A b \in ListSet(World) \cap Bots :
      /\ (room.phase = "playCard" /\ Living(World, b) /\ ~players[b].hasDecided)
           => BotTimerPending(b, "botCard")
      /\ (room.phase = "action" /\ players[b].playedCard # NoCard
           /\ players[b].action = NoAction)
           => BotTimerPending(b, "botAction")

(***************************************************************************)
(* The action phase of a turn in which the bot is about to decide, over    *)
(* the inputs of BotManager.decideAction.                                  *)
(***************************************************************************)
LadderCards == {1, 2, 5, 14, 18}
LadderHands == {<<3>>, <<3, 6, 7>>}
LadderTurns == {1, 4}
LadderProjected == {-1, 30}
TheBot == CHOOSE b \in Bots : TRUE

InitLadder ==
  \E c \in LadderCards, heart \in 1..MaxHeart, cd \in 0..1, hand \in LadderHands,
     turn \in LadderTurns, rival \in BOOLEAN, proj \in LadderProjected,
     k \in 1..Len(EVENTS), comp \in Competitions :
    /\ EVENTS[k].effect = "special_battle" => comp = "vocal"
    /\ EVENTS[k].effect = "shrimp_curse" => heart < MaxHeart
    /\ EVENTS[k].effect = "heal_1" => heart > 1
    /\ players = [p \in Slots |->
                    IF p = 1 THEN TurnPlayer(1, heart, 4, <<8>>)
                    ELSE IF p = 2 THEN TurnPlayer(2, heart, 9, IF rival THEN <<10>> ELSE << >>)
                    ELSE [TurnPlayer(p, heart, c, hand)
                            EXCEPT !.id = NoSocket, !.actionCooldown = cd]]
    /\ list = <<1, 2, 3>>
    /\ room = [TurnRoom(k, comp) EXCEPT !.turn = turn]
    /\ deck = [avail |-> <<11, 12, 13>>, used |-> << >>, recycled |-> FALSE]
    /\ timers = SetToBag({T0("autoSkip"), Timer("botAction", TheBot, FALSE, 0, TRUE)})
    /\ botState = [b \in Slots |-> IF b = TheBot THEN proj ELSE -1]
    /\ announce = [over |-> FALSE, winner |-> 0, draw |-> FALSE]
    /\ games = 1
    /\ resolves = 0

NextLadder == BotActionTimer

SpecLadder == InitLadder /\ [][NextLadder]_vars

\* the action the ladder prescribes, from the three tests
Ladder(w, b, coin) ==
  IF shouldUseSkill(w, b, projectedScore2(w, b), coin) THEN Skill
  ELSE IF shouldFlee(w, b, projectedScore2(w, b)) THEN Flee
  ELSE IF shouldGacha(w, b, projectedScore2(w, b)) THEN Gacha
  ELSE Compete

\* C39: decideAction returns Skill if shouldUseSkill holds, else Flee if
\* shouldFlee holds, else Gacha if shouldGacha holds, else Compete; the result
\* is one of the four action codes; it is never Skill on a cooldown or with a
\* card without skill or with 'salt', and never Flee at heart <= 1 or with
\* fewer than 2 living opponents.
C39_ActionLadder ==
  \A b \in ListSet(World) \cap Bots, coin \in BOOLEAN :
    players[b].playedCard # NoCard =>
      /\ decideAction(World, b, coin) = Ladder(World, b, coin)
      /\ decideAction(World, b, coin) \in Actions
      /\ decideAction(World, b, coin) = Skill =>
           /\ players[b].actionCooldown = 0
           /\ CardOf(players[b].playedCard).skill \notin {"none", "salt"}
      /\ decideAction(World, b, coin) = Flee =>
           /\ players[b].heart > 1
           /\ Cardinality({p \in ListSet(World) \ {b} : Living(World, p)}) >= 2

\* the bot's timer has chosen Flee
C39_Witness ==
  /\ players[TheBot].action = Flee
  /\ players[TheBot].heart > 1

(***************************************************************************)
(* The action phase of a turn in a room with two bots.  Slot 2 is held by  *)
(* the second bot: its connection id is null like every bot's; it has no   *)
(* heart left and takes no part in the turn.  The bot of slot 3 has played *)
(* the divine card.                                                        *)
(***************************************************************************)
InitTwoBots ==
  \E heart \in [{1, TheBot} -> 1..MaxHeart], idle \in {<< >>, <<2>>},
     k \in 1..Len(EVENTS), comp \in Competitions :
    /\ EVENTS[k].effect = "special_battle" => comp = "vocal"
    /\ EVENTS[k].effect = "shrimp_curse" => \A p \in {1, TheBot} : heart[p] < MaxHeart
    /\ EVENTS[k].effect = "heal_1" => \A p \in {1, TheBot} : heart[p] > 1
    /\ players = [p \in Slots |->
                    IF p = 1 THEN TurnPlayer(1, heart[1], 9, <<1>>)
                    ELSE IF p = TheBot
                    THEN [TurnPlayer(p, heart[p], DivineCard, <<3>>) EXCEPT !.id = NoSocket]
                    ELSE [NewPlayer(p) EXCEPT !.id = NoSocket, !.heart = 0, !.hand = idle,
                                              !.ready = TRUE, !.hasDecided = TRUE,
                                              !.isDead = TRUE]]
    /\ list = <<1, 2, 3>>
    /\ room = TurnRoom(k, comp)
    /\ deck = [avail |-> <<5, 6, 7, 10>>, used |-> << >>, recycled |-> FALSE]
    /\ timers = SetToBag({T0("autoSkip"), Timer("botAction", TheBot, FALSE, 0, TRUE)})
    /\ botState = [b \in Slots |-> -1]
    /\ announce = [over |-> FALSE, winner |-> 0, draw |-> FALSE]
    /\ games = 1
    /\ resolves = 0

SpecTwoBots == InitTwoBots /\ [][NextDivine]_vars

\* the players whose Skill action raises a divine-card flag in the resolution
DivineCasters(w, way) ==
  {p \in CardPlayers(w) :
     /\ w.players[p].action = Skill
     /\ CardOf(w.players[p].playedCard).skill = "divine card"
     /\ SocketKey(w, p) \in Skilled(w, way).w.room.divineCardActive}
ShieldCasters(w, way) == {p \in CardPlayers(w) : RaisesShield(w, p, way)}

\* the players the start of the turn after the resolution of w revives
RevivedNext(w, way) ==
  {q \in ListSet(w) :
     /\ resolveTurn(w, way).players[q].heart = 0
     /\ Len(startNewTurn(resolveTurn(w, way), way).players[q].hand)
          > Len(resolveTurn(w, way).players[q].hand)}

\* C40: a divine-card flag set in a resolution revives nobody but its caster
\* at the start of the next turn, and a leek shield spares nobody but its
\* caster in the heart-loss phase, bots (connection id null) included.
C40_BoundToCaster ==
  \A w \in ResolveInputs, way \in Ways :
    (w.room.divineCardActive = {} /\ resolveTurn(w, way).room.started) =>
      /\ RevivedNext(w, way) \subseteq DivineCasters(w, way)
      /\ {q \in CardPlayers(w) :
            getPlayerKey(w, q) \in Skilled(w, way).w.room.protectedPlayers}
           \subseteq ShieldCasters(w, way)

====
